---- MODULE Spec2Model ----
(***************************************************************************)
(* SerenService (src/src/services/serenService.ts): the x402 two-phase     *)
(* payment flow  request -> 402 -> sign -> retry.                          *)
(*                                                                         *)
(* One SerenService instance serves NumInvocations executeQuery calls.     *)
(* An invocation is an async function: it runs synchronously up to an      *)
(* await, and every await is a point where other invocations may run.      *)
(* Each action below is the code between two awaits of one invocation.     *)
(* The wallet, the signer and the gateway are the environment: what they   *)
(* return or throw is chosen by \E from the sets defined here.             *)
(***************************************************************************)
EXTENDS Integers, Sequences, FiniteSets, TLC

\* ------------------------------------------------------------------ bounds

\* executeQuery invocations made on the one instance (concurrent or in sequence)
NumInvocations == 2

Invocations == 1..NumInvocations

\* ------------------------------------------------------- text (JS strings)
\* A string is a sequence of one-character strings, so that trim(),
\* toUpperCase() and startsWith() are computed and not assumed.

Whitespace == {" ", "\t", "\n"}

LowerToUpper ==
    [c \in {"s", "e", "l", "c", "t", "d", "r", "o", "p"} |->
        CASE c = "s" -> "S" [] c = "e" -> "E" [] c = "l" -> "L"
          [] c = "c" -> "C" [] c = "t" -> "T" [] c = "d" -> "D"
          [] c = "r" -> "R" [] c = "o" -> "O" [] c = "p" -> "P"]

\* String.prototype.toUpperCase
ToUpperCase(s) ==
    [k \in 1..Len(s) |-> IF s[k] \in DOMAIN LowerToUpper THEN LowerToUpper[s[k]] ELSE s[k]]

RECURSIVE TrimStart(_)
TrimStart(s) ==
    IF s # <<>> /\ Head(s) \in Whitespace THEN TrimStart(Tail(s)) ELSE s

RECURSIVE TrimEnd(_)
TrimEnd(s) ==
    IF s # <<>> /\ s[Len(s)] \in Whitespace THEN TrimEnd(SubSeq(s, 1, Len(s) - 1)) ELSE s

\* String.prototype.trim
Trim(s) == TrimEnd(TrimStart(s))

\* String.prototype.startsWith
StartsWith(s, prefix) ==
    /\ Len(s) >= Len(prefix)
    /\ SubSeq(s, 1, Len(prefix)) = prefix

SELECT == <<"S", "E", "L", "E", "C", "T">>

\* The sql arguments a caller passes.
SqlEmpty == <<>>
SqlBlank == <<" ">>
SqlDrop == <<"D", "R", "O", "P", " ", "t">>
SqlSelect == <<" ", "s", "e", "l", "e", "c", "t", " ", "1", "\n">>
SqlSelectThenDrop ==
    <<"S", "E", "L", "E", "C", "T", " ", "1", ";", "D", "R", "O", "P", " ", "t">>

ValidProviderId == "publisher-uuid"

Params(providerId, sql) == [providerId |-> providerId, sql |-> sql]

\* The arguments every caller may pass
CoreParams == {Params(ValidProviderId, SqlSelect)}

\* The arguments the first caller may pass as well
MoreParams ==
    {Params("", SqlSelect), Params("", SqlEmpty), Params(ValidProviderId, SqlEmpty),
     Params(ValidProviderId, SqlBlank), Params(ValidProviderId, SqlDrop),
     Params(ValidProviderId, SqlSelectThenDrop)}

\* --------------------------------------------------- values and sentinels

\* JavaScript undefined, for a string-typed and for a number-typed field
Undefined == "undefined"
UndefinedNumber == -1

\* Number.prototype.toString of an integer: its decimal digits
Digit(d) ==
    CASE d = 0 -> "0" [] d = 1 -> "1" [] d = 2 -> "2" [] d = 3 -> "3" [] d = 4 -> "4"
      [] d = 5 -> "5" [] d = 6 -> "6" [] d = 7 -> "7" [] d = 8 -> "8" [] d = 9 -> "9"

RECURSIVE NatToString(_)
NatToString(n) ==
    IF n < 10 THEN <<Digit(n)>> ELSE NatToString(n \div 10) \o <<Digit(n % 10)>>

NumberToString(n) ==
    IF n < 0 THEN <<"-">> \o NatToString(0 - n) ELSE NatToString(n)

\* ------------------------------------------- gateway types (PaymentRequirement)

NoEip712 ==
    [present |-> FALSE, chainId |-> UndefinedNumber, verifyingContract |-> Undefined,
     name |-> Undefined, version |-> Undefined]

\* The requirement of the unit tests: amount 1000000, timeout 300, no extra
ReqBase ==
    [scheme |-> "exact", network |-> "base-mainnet", maxAmountRequired |-> "1000000",
     asset |-> "0xusdc", payTo |-> "0xgateway", maxTimeoutSeconds |-> 300,
     eip712 |-> NoEip712]

\* A requirement that carries extra.eip712
ReqExtra ==
    [scheme |-> "exact", network |-> "base-sepolia", maxAmountRequired |-> "0500",
     asset |-> "0xusdc-sepolia", payTo |-> "0xpublisher", maxTimeoutSeconds |-> 30,
     eip712 |-> [present |-> TRUE, chainId |-> 84532, verifyingContract |-> "0xverifier",
                 name |-> "USDC", version |-> "2"]]

\* No requirement selected
NoRequirement ==
    [scheme |-> Undefined, network |-> Undefined, maxAmountRequired |-> Undefined,
     asset |-> Undefined, payTo |-> Undefined, maxTimeoutSeconds |-> 0,
     eip712 |-> NoEip712]

\* Requirements whose timeout is not positive
ReqZero == [ReqBase EXCEPT !.maxTimeoutSeconds = 0]
ReqNegative == [ReqBase EXCEPT !.maxTimeoutSeconds = -60]

\* ------------------------------------------------- gateway types (responses)

NoData ==
    [present |-> FALSE, rows |-> Undefined, rowCount |-> UndefinedNumber,
     estimatedCost |-> Undefined, actualCost |-> Undefined,
     executionTime |-> UndefinedNumber, settlementTx |-> Undefined]

\* QueryResult with an inline settlement record (the unit test's phase 2)
DataSettled ==
    [present |-> TRUE, rows |-> "[{count: 42}]", rowCount |-> 1,
     estimatedCost |-> "0.025", actualCost |-> "0.020",
     executionTime |-> 100, settlementTx |-> "0xtx456"]

\* QueryResult without a settlement record
DataPlain ==
    [present |-> TRUE, rows |-> "[{id: 1}]", rowCount |-> 2,
     estimatedCost |-> "0.001", actualCost |-> "0.002",
     executionTime |-> 50, settlementTx |-> Undefined]

NoPaymentRequired == [present |-> FALSE, accepts |-> <<>>]

Accepts(list) == [present |-> TRUE, accepts |-> list]

Response(status, paymentRequired, data, paymentResponse) ==
    [status |-> status, paymentRequired |-> paymentRequired, data |-> data,
     paymentResponse |-> paymentResponse]

\* No response received yet
NoResponse == Response(0, NoPaymentRequired, NoData, Undefined)

\* What GatewayClient.queryDatabase resolves to for every invocation
CoreResponses ==
    { Response(402, Accepts(<<ReqBase>>), NoData, Undefined),
      Response(200, NoPaymentRequired, DataSettled, "encoded-settlement") }

\* What it resolves to for the first invocation as well
MoreResponses ==
    { Response(402, Accepts(<<ReqExtra, ReqBase>>), NoData, Undefined),
      Response(402, Accepts(<<ReqZero>>), NoData, Undefined),
      Response(402, Accepts(<<ReqNegative>>), NoData, Undefined),
      Response(402, Accepts(<<>>), NoData, Undefined),
      Response(402, NoPaymentRequired, NoData, Undefined),
      Response(402, NoPaymentRequired, DataPlain, Undefined),
      Response(200, NoPaymentRequired, DataPlain, "encoded-settlement"),
      Response(200, NoPaymentRequired, DataPlain, Undefined),
      Response(200, NoPaymentRequired, DataPlain, "malformed"),
      Response(500, NoPaymentRequired, NoData, Undefined) }

\* --------------------------------------------------------- thrown values

Thrown(class, message) == [class |-> class, message |-> message]

NotThrown == Thrown("none", Undefined)

\* What an awaited call of the environment rejects with
GatewayThrowValues ==
    {Thrown("Error", "Gateway unavailable"), Thrown("NonError", "a thrown string")}

SignerThrowValues ==
    {Thrown("UserRejectedError", "User rejected the request"),
     Thrown("Error", "Signing failed"), Thrown("NonError", "a thrown string")}

ConnectThrowValues == {Thrown("Error", "Invalid private key")}

AddressThrowValues == {Thrown("Error", "Wallet not connected")}

\* Date.now() / 1000, floored, at the moments a payload is built
CoreNows == {1700000000}
MoreNows == {1700000301}

\* The environment of invocation i. All invocations run the same code. The
\* first one meets every input, answer and failure listed above; the others
\* meet the core ones and a failing connect, which keeps the interleavings of
\* several invocations checkable.
Extended(i) == i = 1

ParamsInputs(i) == IF Extended(i) THEN CoreParams \cup MoreParams ELSE CoreParams
Responses(i) == IF Extended(i) THEN CoreResponses \cup MoreResponses ELSE CoreResponses
Nows(i) == IF Extended(i) THEN CoreNows \cup MoreNows ELSE CoreNows
GatewayThrows(i) == IF Extended(i) THEN GatewayThrowValues ELSE {}
SignerThrows(i) == IF Extended(i) THEN SignerThrowValues ELSE {}
AddressThrows(i) == IF Extended(i) THEN AddressThrowValues ELSE {}
ConnectThrows(i) == ConnectThrowValues

\* The address of the account behind the instance's private key
WalletAddress == "0x1234567890123456789012345678901234567890"

\* ------------------------------------------------ results (ExecuteQueryResult)

NoResult ==
    [success |-> FALSE, rows |-> Undefined, rowCount |-> UndefinedNumber,
     estimatedCost |-> Undefined, actualCost |-> Undefined,
     executionTime |-> UndefinedNumber, txHash |-> Undefined, error |-> Undefined]

\* { success: false, error }
Failure(error) == [NoResult EXCEPT !.error = error]

\* { success: true, rows: data.rows, ..., txHash }
Success(data, txHash) ==
    [success |-> TRUE, rows |-> data.rows, rowCount |-> data.rowCount,
     estimatedCost |-> data.estimatedCost, actualCost |-> data.actualCost,
     executionTime |-> data.executionTime, txHash |-> txHash, error |-> Undefined]

\* ------------------------------------------------- executeQuery, pure parts

\* if (!params.providerId), if (!params.sql): the empty string is falsy
IsFalsyId(id) == id = ""
IsFalsySql(sql) == Len(sql) = 0

\* trimmedSql.startsWith('SELECT') with trimmedSql = params.sql.trim().toUpperCase()
StartsWithSelect(sql) == StartsWith(ToUpperCase(Trim(sql)), SELECT)

\* ValidateParams without the check of params.sql
ValidateParamsNoSqlCheck(params) ==
    IF IsFalsyId(params.providerId) THEN "providerId is required"
    ELSE IF ~StartsWithSelect(params.sql) THEN "Only SELECT queries are allowed"
    ELSE Undefined

\* The validation at the head of executeQuery: the error it returns, or
\* Undefined when the input passes.
ValidateParams(params) ==
    IF IsFalsyId(params.providerId) THEN "providerId is required"
    ELSE IF IsFalsySql(params.sql) THEN "sql is required"
    ELSE IF ~StartsWithSelect(params.sql) THEN "Only SELECT queries are allowed"
    ELSE Undefined

PaymentRequiredStatus == 402

\* The test of the first response with the status alone
IsNotPaymentChallengeByStatus(resp) == resp.status # PaymentRequiredStatus

\* initialResult.status !== 402 || !initialResult.paymentRequired
IsNotPaymentChallenge(resp) ==
    resp.status # PaymentRequiredStatus \/ ~resp.paymentRequired.present

\* A first response that is no payment challenge treated as a failure
PassThroughAsFailure(resp) == Failure("Unexpected response from gateway")

\* The first response passed through with a transaction hash read from its
\* payment-response field
PassThroughWithTxHash(resp) ==
    IF resp.data.present
    THEN Success(resp.data, resp.paymentResponse)
    ELSE Failure("Unexpected response from gateway")

\* The result of a first response that is no payment challenge
PassThrough(resp) ==
    IF resp.data.present
    THEN Success(resp.data, Undefined)
    ELSE Failure("Unexpected response from gateway")

\* The position of accepts[0] in a sequence, which counts from 1
FirstIndex == 1

\* The last entry of the list in place of accepts[0]
SelectLastRequirement(accepts) ==
    IF Len(accepts) >= FirstIndex THEN accepts[Len(accepts)] ELSE NoRequirement

\* const paymentRequirement = initialResult.paymentRequired.accepts[0]:
\* undefined (NoRequirement) when the list is empty
SelectRequirement(accepts) ==
    IF Len(accepts) >= FirstIndex THEN accepts[FirstIndex] ELSE NoRequirement

\* The check of the selected requirement left out
NeverMissingRequirement(requirement) == FALSE

\* if (!paymentRequirement)
IsMissingRequirement(requirement) == requirement = NoRequirement

\* The catch block with the instanceof Error test first: UserRejectedError
\* is an Error, so its own branch is never reached
CatchResultErrorFirst(thrown) ==
    IF thrown.class \in {"Error", "UserRejectedError"} THEN Failure(thrown.message)
    ELSE Failure("Unknown error occurred")

\* The catch block with a fixed message for every Error
CatchResultMasked(thrown) ==
    IF thrown.class = "UserRejectedError" THEN Failure("User rejected the payment request")
    ELSE IF thrown.class = "Error" THEN Failure("Query failed")
    ELSE Failure("Unknown error occurred")

\* The catch block without its last branch: what is no Error is thrown on,
\* and the caller gets no result
CatchResultErrorsOnly(thrown) ==
    IF thrown.class = "UserRejectedError" THEN Failure("User rejected the payment request")
    ELSE IF thrown.class = "Error" THEN Failure(thrown.message)
    ELSE NoResult

\* The catch block of executeQuery
CatchResult(thrown) ==
    IF thrown.class = "UserRejectedError" THEN Failure("User rejected the payment request")
    ELSE IF thrown.class = "Error" THEN Failure(thrown.message)
    ELSE Failure("Unknown error occurred")

\* -------------------------------------------- buildPaymentPayload, pure parts

DefaultChainId == 8453

\* x ?? fallback for numbers and for strings
NullishNumber(x, fallback) == IF x = UndefinedNumber THEN fallback ELSE x
NullishString(x, fallback) == IF x = Undefined THEN fallback ELSE x

\* The argument of buildDomain with the defaults in every case
ResolveDomainDefaultsOnly(requirement) ==
    [chainId |-> DefaultChainId,
     verifyingContract |-> requirement.asset,
     name |-> requirement.eip712.name,
     version |-> requirement.eip712.version]

\* The argument of buildDomain
ResolveDomain(requirement) ==
    [chainId |-> NullishNumber(requirement.eip712.chainId, DefaultChainId),
     verifyingContract |->
        NullishString(requirement.eip712.verifyingContract, requirement.asset),
     name |-> requirement.eip712.name,
     version |-> requirement.eip712.version]

ClockSkewSeconds == 60

\* const validAfter = now - 60
ValidAfter(now) == now - ClockSkewSeconds

\* validBefore counted from the backdated start of the window
ValidBeforeFromValidAfter(now, requirement) ==
    ValidAfter(now) + requirement.maxTimeoutSeconds

\* const validBefore = now + requirement.maxTimeoutSeconds
ValidBefore(now, requirement) == now + requirement.maxTimeoutSeconds

\* buildAuthorizationMessage({from, to, value, validAfter, validBefore}), which
\* adds the nonce
AuthorizationMessage(from, requirement, now, nonce) ==
    [from |-> from, to |-> requirement.payTo, value |-> requirement.maxAmountRequired,
     validAfter |-> ValidAfter(now), validBefore |-> ValidBefore(now, requirement),
     nonce |-> nonce]

NoMessage ==
    [from |-> Undefined, to |-> Undefined, value |-> Undefined,
     validAfter |-> 0, validBefore |-> 0, nonce |-> 0]

NoDomain ==
    [chainId |-> UndefinedNumber, verifyingContract |-> Undefined,
     name |-> Undefined, version |-> Undefined]

\* wallet.signTypedData(domain, message): a signature is told apart by its
\* signer and by what it was made over
Signature(signer, domain, message) ==
    [signer |-> signer, domain |-> domain, message |-> message]

NoSignature == Signature(Undefined, NoDomain, NoMessage)

X402Version == 1

\* The payload with payer and recipient exchanged
PaymentPayloadSwappedParties(requirement, fromAddress, validAfter, validBefore, nonce, signature) ==
    [present |-> TRUE,
     x402Version |-> X402Version,
     scheme |-> requirement.scheme,
     network |-> requirement.network,
     signature |-> signature,
     authorization |->
        [from |-> requirement.payTo,
         to |-> fromAddress,
         value |-> requirement.maxAmountRequired,
         validAfter |-> NumberToString(validAfter),
         validBefore |-> NumberToString(validBefore),
         nonce |-> nonce]]

\* The payload with a constant in place of message.nonce
PaymentPayloadFixedNonce(requirement, fromAddress, validAfter, validBefore, nonce, signature) ==
    [present |-> TRUE,
     x402Version |-> X402Version,
     scheme |-> requirement.scheme,
     network |-> requirement.network,
     signature |-> signature,
     authorization |->
        [from |-> fromAddress,
         to |-> requirement.payTo,
         value |-> requirement.maxAmountRequired,
         validAfter |-> NumberToString(validAfter),
         validBefore |-> NumberToString(validBefore),
         nonce |-> 0]]

\* The payload with the two ends of the validity window exchanged
PaymentPayloadSwappedWindow(requirement, fromAddress, validAfter, validBefore, nonce, signature) ==
    [present |-> TRUE,
     x402Version |-> X402Version,
     scheme |-> requirement.scheme,
     network |-> requirement.network,
     signature |-> signature,
     authorization |->
        [from |-> fromAddress,
         to |-> requirement.payTo,
         value |-> requirement.maxAmountRequired,
         validAfter |-> NumberToString(validBefore),
         validBefore |-> NumberToString(validAfter),
         nonce |-> nonce]]

\* The PaymentPayload buildPaymentPayload returns
PaymentPayload(requirement, fromAddress, validAfter, validBefore, nonce, signature) ==
    [present |-> TRUE,
     x402Version |-> X402Version,
     scheme |-> requirement.scheme,
     network |-> requirement.network,
     signature |-> signature,
     authorization |->
        [from |-> fromAddress,
         to |-> requirement.payTo,
         value |-> requirement.maxAmountRequired,
         validAfter |-> NumberToString(validAfter),
         validBefore |-> NumberToString(validBefore),
         nonce |-> nonce]]

NoPayload ==
    [present |-> FALSE, x402Version |-> 0, scheme |-> Undefined, network |-> Undefined,
     signature |-> NoSignature,
     authorization |->
        [from |-> Undefined, to |-> Undefined, value |-> Undefined,
         validAfter |-> <<>>, validBefore |-> <<>>, nonce |-> 0]]

\* --------------------------------------------------- settlement extraction

\* GatewayClient.decodePaymentResponse: the decoded record, or a throw on
\* input that is not a well-formed encoding
DecodeThrows(encoded) == encoded = "malformed"

DecodePaymentResponse(encoded) ==
    IF encoded = "encoded-settlement" THEN [transaction |-> "0xtx123"]
    ELSE [transaction |-> Undefined]

\* The decoder run on every payment-response field, settlement record or not
DecoderAlwaysInvoked(resp) == resp.paymentResponse # Undefined

\* Whether the else-if branch that decodes paidResult.paymentResponse is taken
DecoderInvoked(resp) ==
    /\ resp.data.settlementTx = Undefined
    /\ resp.paymentResponse # Undefined

\* txHash taken from the decoded payment response before the settlement record
ExtractTxHashHeaderFirst(resp) ==
    IF resp.paymentResponse # Undefined
    THEN DecodePaymentResponse(resp.paymentResponse).transaction
    ELSE resp.data.settlementTx

\* let txHash ... of executeQuery
ExtractTxHash(resp) ==
    IF resp.data.settlementTx # Undefined THEN resp.data.settlementTx
    ELSE IF resp.paymentResponse # Undefined
         THEN DecodePaymentResponse(resp.paymentResponse).transaction
         ELSE Undefined

\* The result of the paid response with a transaction reference demanded
PaidResultRequiresSettlement(resp) ==
    IF ~resp.data.present THEN Failure("No data returned from gateway")
    ELSE IF DecoderInvoked(resp) /\ DecodeThrows(resp.paymentResponse)
         THEN CatchResult(Thrown("Error", "Invalid payment response"))
         ELSE IF ExtractTxHash(resp) = Undefined
              THEN Failure("No settlement returned from gateway")
              ELSE Success(resp.data, ExtractTxHash(resp))

\* The result of the paid response with a throw of the decoder swallowed:
\* the data is returned without a txHash
PaidResultDecodeErrorSwallowed(resp) ==
    IF ~resp.data.present THEN Failure("No data returned from gateway")
    ELSE IF DecoderInvoked(resp) /\ DecodeThrows(resp.paymentResponse)
         THEN Success(resp.data, Undefined)
         ELSE Success(resp.data, ExtractTxHash(resp))

\* The result of the paid response
PaidResult(resp) ==
    IF ~resp.data.present THEN Failure("No data returned from gateway")
    ELSE IF DecoderInvoked(resp) /\ DecodeThrows(resp.paymentResponse)
         THEN CatchResult(Thrown("Error", "Invalid payment response"))
         ELSE Success(resp.data, ExtractTxHash(resp))

\* ------------------------------------------------- tools: depositCredits

\* The length of the longest text a tool is given
MaxTextLen == 3

\* The characters the amounts are written with
AmountChars == {"0", "1", "-", ".", "a", " "}

\* An input property that was not given (undefined)
Missing == <<"undefined">>

\* All texts of at most n characters over the set chars
TextsUpTo(chars, n) == UNION {[1..k -> chars] : k \in 0..n}

\* input.amount
Amounts == TextsUpTo(AmountChars, MaxTextLen) \cup {Missing}

\* !text: undefined and the empty string are falsy
IsFalsyText(text) == text = Missing \/ text = <<>>

DecimalDigits == {"0", "1", "2", "3", "4", "5", "6", "7", "8", "9"}

\* The longest prefix of text that consists of decimal digits
RECURSIVE DigitPrefix(_)
DigitPrefix(text) ==
    IF text # <<>> /\ Head(text) \in DecimalDigits
    THEN <<Head(text)>> \o DigitPrefix(Tail(text))
    ELSE <<>>

\* parseFloat(text): leading whitespace is skipped, then the longest prefix
\* that is a decimal literal (sign, digits, point, digits) is converted and
\* what follows it is ignored. NaN when that prefix has no digit. Of the
\* value, the sign and whether it is zero are kept.
ParseFloat(text) ==
    LET start == TrimStart(text)
        signed == start # <<>> /\ Head(start) \in {"-", "+"}
        unsigned == IF signed THEN Tail(start) ELSE start
        whole == DigitPrefix(unsigned)
        rest == SubSeq(unsigned, Len(whole) + 1, Len(unsigned))
        fraction == IF rest # <<>> /\ Head(rest) = "."
                    THEN DigitPrefix(Tail(rest)) ELSE <<>>
        digits == whole \o fraction
    IN  [nan |-> digits = <<>>,
         negative |-> signed /\ Head(start) = "-",
         zero |-> \A k \in 1..Len(digits) : digits[k] = "0"]

\* isNaN(numAmount)
IsNaN(number) == number.nan

\* numAmount <= 0 (false for NaN)
IsAtMostZero(number) == ~number.nan /\ (number.zero \/ number.negative)

\* null
Null == "null"

\* validateAmount(amount): the error, or null
ValidateAmount(amount) ==
    LET number == ParseFloat(amount)
    IN  IF IsFalsyText(amount) THEN "amount is required"
        ELSE IF IsNaN(number) THEN "amount must be a valid number"
        ELSE IF IsAtMostZero(number) THEN "amount must be greater than zero"
        ELSE Null

GATEWAY_DEPOSIT_WALLET == "0x1234567890123456789012345678901234567890"

\* What a tool returns: success and error, and the fields of the three
\* outputs (DepositCreditsOutput, GetPublisherDetailsOutput,
\* ListPublishersOutput) that depend on the call
NoToolResult ==
    [success |-> FALSE, error |-> Undefined,
     amount |-> Missing, gatewayWallet |-> Undefined, agentWallet |-> Undefined,
     publisher |-> Undefined, publishers |-> <<>>]

\* { success: false, error }
ToolFailure(error) == [NoToolResult EXCEPT !.error = error]

\* catch (error): error instanceof Error ? error.message : 'Unknown error'
ToolCatch(thrown) ==
    IF thrown.class \in {"Error", "UserRejectedError"} THEN ToolFailure(thrown.message)
    ELSE ToolFailure("Unknown error")

\* The successful DepositCreditsOutput
DepositOutput(amount, agentWallet) ==
    [NoToolResult EXCEPT !.success = TRUE, !.amount = amount,
                         !.gatewayWallet = GATEWAY_DEPOSIT_WALLET,
                         !.agentWallet = agentWallet]

\* What the wallet's getAddress may throw
ToolWalletThrows == {Thrown("Error", "Wallet not connected"), Thrown("NonError", "a thrown string")}

\* ------------------------------------- tools: getPublisherDetails, listPublishers

\* input.publisher_id
PublisherIds == TextsUpTo({" ", "p"}, MaxTextLen) \cup {Missing}

\* The validation of getPublisherDetails without the trim
IsInvalidPublisherIdUntrimmed(id) == IsFalsyText(id)

\* !input.publisher_id || input.publisher_id.trim() === ''
IsInvalidPublisherId(id) == IsFalsyText(id) \/ Trim(id) = <<>>

\* { success: true, publisher }
PublisherOutput(publisher) ==
    [NoToolResult EXCEPT !.success = TRUE, !.publisher = publisher]

\* What gateway.getPublisher resolves to
GatewayPublishers == {"Test Publisher"}

\* What gateway.getPublisher and gateway.listPublishers may throw
ToolGatewayThrows ==
    {Thrown("Error", "Publisher not found: unknown-id"),
     Thrown("Error", "Gateway unavailable"),
     Thrown("NonError", "a thrown string")}

\* input.category and input.type: not given, empty, or a value
Categories == {Undefined, "", "finance"}
PublisherTypes == {Undefined, "", "api", "database"}

\* if (input.category), if (input.type): undefined and '' are falsy
IsFalsyOption(option) == option = Undefined \/ option = ""

\* The filters with both properties copied from the input as they are
BuildFiltersCopied(category, type) == [category |-> category, type |-> type]

\* const filters = {}; each property is set when the input has it non-empty.
\* A property that is not set reads as undefined.
BuildFilters(category, type) ==
    [category |-> IF IsFalsyOption(category) THEN Undefined ELSE category,
     type |-> IF IsFalsyOption(type) THEN Undefined ELSE type]

NoFilters == [category |-> Undefined, type |-> Undefined]

\* What gateway.listPublishers resolves to
GatewayPublisherLists == {<<>>, <<"Test Publisher 1", "Test Publisher 2">>}

\* { success: true, publishers }
PublishersOutput(publishers) ==
    [NoToolResult EXCEPT !.success = TRUE, !.publishers = publishers]

\* A tool call: the tool, its position, its input and what it has done
NoToolCall ==
    [name |-> "none", pc |-> "idle",
     amount |-> Missing, publisher_id |-> Missing,
     category |-> Undefined, type |-> Undefined,
     \* calls made, and the arguments of the gateway calls
     getAddressCalls |-> 0, getPublisherCalls |-> 0, listPublishersCalls |-> 0,
     getPublisherArgument |-> Missing, listPublishersArgument |-> NoFilters,
     thrown |-> NotThrown,
     result |-> NoToolResult]

\* ------------------------------------------- executeAdminQuery, pure parts

\* !sql || !sql.trim(), !apiKey || !apiKey.trim()
IsBlankText(text) == IsFalsyText(text) \/ Trim(text) = <<>>

\* The validation at the head of executeAdminQuery: the error, or Undefined
ValidateAdmin(sql, apiKey) ==
    IF IsBlankText(sql) THEN "SQL query is required"
    ELSE IF IsBlankText(apiKey) THEN "API key is required for admin operations"
    ELSE Undefined

\* The request passed to fetch: the Authorization header and the body
AdminRequest(sql, apiKey) == [authorization |-> apiKey, sql |-> Trim(sql)]

\* What fetch resolves to: the status and the body. The body is JSON (with
\* its error property or its QueryResult), or text that is no JSON, or empty.
AdminResponse(status, body, error, data) ==
    [status |-> status, body |-> body, error |-> error, data |-> data]

AdminResponses ==
    { AdminResponse(200, "json", Undefined, DataPlain),
      AdminResponse(200, "text", "<html>", NoData),
      AdminResponse(401, "json", "unauthorized", NoData),
      AdminResponse(403, "empty", Undefined, NoData),
      AdminResponse(500, "json", "relation does not exist", NoData),
      AdminResponse(500, "json", Undefined, NoData),
      AdminResponse(502, "text", "Bad Gateway", NoData),
      AdminResponse(503, "empty", Undefined, NoData) }

\* `HTTP ${response.status}` and `Query failed with status ${response.status}`
HttpStatusText(status) ==
    CASE status = 500 -> "HTTP 500" [] status = 502 -> "HTTP 502"
      [] status = 503 -> "HTTP 503" [] OTHER -> "HTTP"

QueryFailedText(status) ==
    CASE status = 500 -> "Query failed with status 500"
      [] status = 502 -> "Query failed with status 502"
      [] status = 503 -> "Query failed with status 503"
      [] OTHER -> "Query failed with status"

\* The catch block of executeAdminQuery
AdminCatch(thrown) ==
    IF thrown.class \in {"Error", "UserRejectedError"} THEN Failure(thrown.message)
    ELSE Failure("Unknown error occurred")

\* What executeAdminQuery returns for a response, the reading of the body
\* included (response.text() and JSON.parse, or response.json())
AdminResult(resp) ==
    IF resp.status = 401 \/ resp.status = 403
    THEN Failure("Admin authentication failed. Please check your SEREN_API_KEY.")
    ELSE IF resp.status \notin 200..299
    THEN LET errorBody ==
                 IF resp.body = "json" THEN resp.error
                 ELSE IF resp.body = "text" THEN resp.error
                 ELSE HttpStatusText(resp.status)
         IN  Failure(IF errorBody \in {Undefined, ""}
                     THEN QueryFailedText(resp.status) ELSE errorBody)
    ELSE IF resp.body # "json"
    THEN \* response.json() throws a SyntaxError, which is caught
         AdminCatch(Thrown("Error", "Unexpected token < in JSON at position 0"))
    ELSE Success(resp.data, Undefined)

\* A call of executeAdminQuery: position, arguments and what it has done
NoAdminCall ==
    [pc |-> "idle", sql |-> Missing, apiKey |-> Missing,
     fetchCalls |-> 0, request |-> [authorization |-> Missing, sql |-> Missing],
     result |-> NoResult]

\* ------------------------------------------ POST /api/execute-sql, pure parts

\* A property of the request body that is no string (a number, say)
NotAString == <<"number">>

\* The values of body.sql and body.providerId
BodyValues == TextsUpTo({" ", "s"}, MaxTextLen) \cup {Missing, NotAString}

\* A schema that checks sql alone, as executeAdminSqlSchema does
SafeParseSqlOnly(body) == body.sql \notin {Missing, NotAString} /\ Len(body.sql) >= 1

\* executeSqlSchema.safeParse(req.body).success: sql and providerId are
\* strings of at least one character
SafeParse(body) ==
    /\ body.sql \notin {Missing, NotAString} /\ Len(body.sql) >= 1
    /\ body.providerId \notin {Missing, NotAString} /\ Len(body.providerId) >= 1

\* What serenService.executeQuery resolves to
ServiceResults ==
    { Success(DataSettled, "0xtx456"), Success(DataPlain, Undefined),
      Failure("Only SELECT queries are allowed"), Failure(""), NoResult }

\* A request to POST /api/execute-sql: its body, the call of the service,
\* and the responses sent
NoServerRequest ==
    [pc |-> "idle", body |-> [sql |-> Missing, providerId |-> Missing],
     serviceCalls |-> 0, params |-> [sql |-> Missing, providerId |-> Missing],
     result |-> NoResult, thrown |-> NotThrown,
     responses |-> 0, status |-> 0, json |-> NoResult]

\* ------------------------------------------------------------ AdminConsole

\* The admin requests one console session may start
MaxRequests == 3

\* The sql of the templates of the Quick Actions
Templates == {SqlDrop}

\* The component after its first render: the useState initial values, and
\* the requests of its executeQuery calls (started counts them, inFlight
\* holds those not yet answered, shown is the request whose answer set the
\* status, 0 when the status was set otherwise)
NoConsole ==
    [query |-> <<>>, results |-> NoData, status |-> "idle", error |-> Undefined,
     output |-> "",
     started |-> 0, inFlight |-> {}, shown |-> 0]

\* ------------------------------------------------------------------ state

VARIABLES
    walletProvider,  \* this.walletProvider: 0 is null, else the provider's id
    providers,       \* the PrivateKeyWalletProvider objects created so far, in order
    connectCalls,    \* connect handshakes started on any provider
    inv,             \* the executeQuery invocations: position and locals
    tool,            \* the call of a tool function (depositCredits,
                     \* getPublisherDetails, listPublishers)
    admin,           \* the call of executeAdminQuery
    server,          \* the request to POST /api/execute-sql
    console          \* the state of the AdminConsole component

vars == <<walletProvider, providers, connectCalls, inv, tool, admin, server, console>>

\* The state of the SerenService instance and of its invocations
serviceVars == <<walletProvider, providers, connectCalls, inv>>

NoParams == [providerId |-> "", sql |-> <<>>]

NoRequest ==
    [sent |-> FALSE, publisherId |-> Undefined, agentWallet |-> Undefined,
     sql |-> <<>>, payment |-> NoPayload]

\* The request handed to gatewayClient.queryDatabase, with its optional payload
Request(params, agentWallet, payment) ==
    [sent |-> TRUE, publisherId |-> params.providerId, agentWallet |-> agentWallet,
     sql |-> params.sql, payment |-> payment]

\* An invocation that has not been made yet
Fresh ==
    [pc |-> "start",
     params |-> NoParams,
     \* locals of executeQuery and buildPaymentPayload
     wallet |-> 0,
     connected |-> FALSE,
     agentWallet |-> Undefined,
     initialResult |-> NoResponse,
     requirement |-> NoRequirement,
     now |-> 0,
     domain |-> NoDomain,
     message |-> NoMessage,
     \* the request the gateway is working on
     request |-> NoRequest,
     \* what the invocation has done, and the answer to its latest gateway
     \* call (NoResponse while the call is pending, and when it threw)
     gatewayCalls |-> 0,
     signCalls |-> 0,
     decodeCalls |-> 0,
     \* the nonces of the payloads the gateway was sent, in order
     sentNonces |-> <<>>,
     lastResponse |-> NoResponse,
     thrown |-> NotThrown,
     result |-> NoResult]

\* return: the locals go out of scope, the result is the caller's
Return(r, result) ==
    [Fresh EXCEPT !.pc = "done", !.params = r.params, !.gatewayCalls = r.gatewayCalls,
                  !.signCalls = r.signCalls, !.decodeCalls = r.decodeCalls,
                  !.sentNonces = r.sentNonces,
                  !.lastResponse = r.lastResponse, !.thrown = r.thrown,
                  !.result = result]

\* A throw inside the try block: the catch block makes the result
Throw(r, thrown) == Return([r EXCEPT !.thrown = thrown], CatchResult(thrown))

\* new PrivateKeyWalletProvider(): no account yet
NewProvider == [connected |-> FALSE]

\* The nonce buildAuthorizationMessage generates for the build of invocation i:
\* fresh random bytes, which no other build's nonce equals
FreshNonce(i) == i

Init ==
    /\ walletProvider = 0
    /\ providers = <<>>
    /\ connectCalls = 0
    /\ inv = [i \in Invocations |-> Fresh]
    /\ tool = NoToolCall
    /\ admin = NoAdminCall
    /\ server = NoServerRequest
    /\ console = NoConsole

\* ---------------------------------------------------------------- actions

\* getWalletProvider up to its await: the cached provider (0 when a new one
\* has to be created and connected first)
CachedProvider == walletProvider

\* executeQuery(params) is called: validation, then getWalletProvider up to
\* the first await.
Call(i, params) ==
    /\ inv[i].pc = "start"
    /\ LET r == [inv[i] EXCEPT !.params = params]
           error == ValidateParams(params)
       IN  IF error # Undefined
           THEN /\ inv' = [inv EXCEPT ![i] = Return(r, Failure(error))]
                /\ UNCHANGED <<walletProvider, providers, connectCalls>>
           ELSE IF CachedProvider # 0
           THEN \* return this.walletProvider; then await wallet.isConnected()
                /\ inv' = [inv EXCEPT ![i] =
                              [r EXCEPT !.pc = "isConnected", !.wallet = CachedProvider]]
                /\ UNCHANGED <<walletProvider, providers, connectCalls>>
           ELSE \* new PrivateKeyWalletProvider(); await provider.connect(privateKey)
                /\ providers' = Append(providers, NewProvider)
                /\ connectCalls' = connectCalls + 1
                /\ inv' = [inv EXCEPT ![i] =
                              [r EXCEPT !.pc = "connectKey", !.wallet = Len(providers) + 1]]
                /\ UNCHANGED walletProvider

\* provider.connect(this.privateKey) resolves: this.walletProvider = provider,
\* return provider, then executeQuery calls wallet.isConnected().
ConnectKeyReturn(i) ==
    /\ inv[i].pc = "connectKey"
    /\ providers' = [providers EXCEPT ![inv[i].wallet].connected = TRUE]
    /\ walletProvider' = inv[i].wallet
    /\ inv' = [inv EXCEPT ![i].pc = "isConnected"]
    /\ UNCHANGED connectCalls

\* getWalletProvider with the assignment before the await: the provider is
\* cached although its connect rejects
ConnectKeyThrowCaching(i) ==
    /\ inv[i].pc = "connectKey"
    /\ \E t \in ConnectThrows(i) : inv' = [inv EXCEPT ![i] = Throw(inv[i], t)]
    /\ walletProvider' = inv[i].wallet
    /\ UNCHANGED <<providers, connectCalls>>

\* provider.connect(this.privateKey) rejects: nothing is cached, the catch
\* block of executeQuery returns the failure.
ConnectKeyThrow(i) ==
    /\ inv[i].pc = "connectKey"
    /\ \E t \in ConnectThrows(i) : inv' = [inv EXCEPT ![i] = Throw(inv[i], t)]
    /\ UNCHANGED <<walletProvider, providers, connectCalls>>

\* IsConnectedAnswer with the answer not acted on
IsConnectedAnswerIgnored(i, connected) ==
    /\ inv[i].pc = "isConnected"
    /\ inv' = [inv EXCEPT ![i].connected = connected, ![i].pc = "getAddress"]
    /\ UNCHANGED <<walletProvider, providers, connectCalls>>

\* wallet.isConnected() resolves with the answer connected;
\* if (!connected) await wallet.connect(); else wallet.getAddress() is called.
IsConnectedAnswer(i, connected) ==
    /\ inv[i].pc = "isConnected"
    /\ IF connected
       THEN /\ inv' = [inv EXCEPT ![i].connected = connected, ![i].pc = "getAddress"]
            /\ UNCHANGED connectCalls
       ELSE /\ inv' = [inv EXCEPT ![i].connected = connected, ![i].pc = "connect"]
            /\ connectCalls' = connectCalls + 1
    /\ UNCHANGED <<walletProvider, providers>>

\* wallet.isConnected() of a PrivateKeyWalletProvider: connected once
\* connect(privateKey) has resolved
IsConnectedReturn(i) ==
    /\ inv[i].pc = "isConnected"
    /\ IsConnectedAnswer(i, providers[inv[i].wallet].connected)

\* wallet.connect() resolves: wallet.getAddress() is called
ConnectReturn(i) ==
    /\ inv[i].pc = "connect"
    /\ providers' = [providers EXCEPT ![inv[i].wallet].connected = TRUE]
    /\ inv' = [inv EXCEPT ![i].pc = "getAddress"]
    /\ UNCHANGED <<walletProvider, connectCalls>>

\* wallet.connect() rejects
ConnectThrow(i) ==
    /\ inv[i].pc = "connect"
    /\ \E t \in ConnectThrows(i) : inv' = [inv EXCEPT ![i] = Throw(inv[i], t)]
    /\ UNCHANGED <<walletProvider, providers, connectCalls>>

\* wallet.getAddress() resolves: the first, unauthenticated request is sent.
GetAddressReturn(i) ==
    /\ inv[i].pc = "getAddress"
    /\ inv' = [inv EXCEPT ![i] =
                  [inv[i] EXCEPT !.pc = "initialRequest",
                                 !.agentWallet = WalletAddress,
                                 !.request = Request(inv[i].params, WalletAddress, NoPayload),
                                 !.lastResponse = NoResponse,
                                 !.gatewayCalls = inv[i].gatewayCalls + 1]]
    /\ UNCHANGED <<walletProvider, providers, connectCalls>>

GetAddressThrow(i) ==
    /\ inv[i].pc = "getAddress"
    /\ \E t \in AddressThrows(i) : inv' = [inv EXCEPT ![i] = Throw(inv[i], t)]
    /\ UNCHANGED <<walletProvider, providers, connectCalls>>

\* InitialReturn without the signature: the payload is built with no
\* signature and the request is sent again at once.
InitialReturnUnsigned(i) ==
    /\ inv[i].pc = "initialRequest"
    /\ \E resp \in Responses(i) :
         LET r == [inv[i] EXCEPT !.initialResult = resp, !.lastResponse = resp,
                                 !.request = NoRequest]
             requirement == SelectRequirement(resp.paymentRequired.accepts)
         IN  IF IsNotPaymentChallenge(resp)
             THEN inv' = [inv EXCEPT ![i] = Return(r, PassThrough(resp))]
             ELSE IF IsMissingRequirement(requirement)
             THEN inv' = [inv EXCEPT ![i] =
                             Return(r, Failure("No payment method available"))]
             ELSE \E now \in Nows(i) :
                    LET payload == PaymentPayload(requirement, r.agentWallet,
                                       ValidAfter(now), ValidBefore(now, requirement),
                                       FreshNonce(i), NoSignature)
                    IN  inv' = [inv EXCEPT ![i] =
                           [r EXCEPT !.pc = "paidRequest",
                                     !.requirement = requirement,
                                     !.now = now,
                                     !.request = Request(r.params, r.agentWallet, payload),
                                     !.lastResponse = NoResponse,
                                     !.sentNonces = Append(@, FreshNonce(i)),
                                     !.gatewayCalls = r.gatewayCalls + 1]]
    /\ UNCHANGED <<walletProvider, providers, connectCalls>>

\* The first response arrives. Either it is final, or no method is offered,
\* or buildPaymentPayload runs up to await wallet.signTypedData(...).
InitialReturn(i) ==
    /\ inv[i].pc = "initialRequest"
    /\ \E resp \in Responses(i) :
         LET r == [inv[i] EXCEPT !.initialResult = resp, !.lastResponse = resp,
                                 !.request = NoRequest]
             requirement == SelectRequirement(resp.paymentRequired.accepts)
         IN  IF IsNotPaymentChallenge(resp)
             THEN inv' = [inv EXCEPT ![i] = Return(r, PassThrough(resp))]
             ELSE IF IsMissingRequirement(requirement)
             THEN inv' = [inv EXCEPT ![i] =
                             Return(r, Failure("No payment method available"))]
             ELSE \E now \in Nows(i) :
                    inv' = [inv EXCEPT ![i] =
                       [r EXCEPT !.pc = "signTypedData",
                                 !.requirement = requirement,
                                 !.now = now,
                                 !.domain = ResolveDomain(requirement),
                                 !.message = AuthorizationMessage(
                                     r.agentWallet, requirement, now, FreshNonce(i)),
                                 !.signCalls = r.signCalls + 1]]
    /\ UNCHANGED <<walletProvider, providers, connectCalls>>

\* gatewayClient.queryDatabase rejects (either phase)
GatewayThrow(i) ==
    /\ inv[i].pc \in {"initialRequest", "paidRequest"}
    /\ \E t \in GatewayThrows(i) :
         inv' = [inv EXCEPT ![i] = Throw([inv[i] EXCEPT !.request = NoRequest], t)]
    /\ UNCHANGED <<walletProvider, providers, connectCalls>>

\* SignReturn with the message kept in a field of the instance instead of a
\* local: the payload is made from the message that was built last, here
\* that of the highest invocation that is waiting for its signature.
SignReturnSharedMessage(i) ==
    /\ inv[i].pc = "signTypedData"
    /\ LET r == inv[i]
           waiting == {j \in Invocations : inv[j].pc = "signTypedData"}
           last == CHOOSE j \in waiting : \A k \in waiting : k <= j
           shared == inv[last]
           signature == Signature(WalletAddress, shared.domain, shared.message)
           payload == PaymentPayload(shared.requirement, r.agentWallet,
                                     ValidAfter(shared.now),
                                     ValidBefore(shared.now, shared.requirement),
                                     shared.message.nonce, signature)
       IN  inv' = [inv EXCEPT ![i] =
                      [r EXCEPT !.pc = "paidRequest",
                                !.request = Request(r.params, r.agentWallet, payload),
                                !.lastResponse = NoResponse,
                                !.sentNonces = Append(@, payload.authorization.nonce),
                                !.gatewayCalls = r.gatewayCalls + 1]]
    /\ UNCHANGED <<walletProvider, providers, connectCalls>>

\* SignReturn with the retry carrying the trimmed, upper-cased text that
\* the validation worked on instead of params.sql
SignReturnTrimmedSql(i) ==
    /\ inv[i].pc = "signTypedData"
    /\ LET r == inv[i]
           signature == Signature(WalletAddress, r.domain, r.message)
           payload == PaymentPayload(r.requirement, r.agentWallet,
                                     ValidAfter(r.now), ValidBefore(r.now, r.requirement),
                                     r.message.nonce, signature)
           trimmed == [r.params EXCEPT !.sql = ToUpperCase(Trim(r.params.sql))]
       IN  inv' = [inv EXCEPT ![i] =
                      [r EXCEPT !.pc = "paidRequest",
                                !.request = Request(trimmed, r.agentWallet, payload),
                                !.lastResponse = NoResponse,
                                !.sentNonces = Append(@, payload.authorization.nonce),
                                !.gatewayCalls = r.gatewayCalls + 1]]
    /\ UNCHANGED <<walletProvider, providers, connectCalls>>

\* wallet.signTypedData resolves: the payload is built and the request is
\* sent again, now with the payload.
SignReturn(i) ==
    /\ inv[i].pc = "signTypedData"
    /\ LET r == inv[i]
           signature == Signature(WalletAddress, r.domain, r.message)
           payload == PaymentPayload(r.requirement, r.agentWallet,
                                     ValidAfter(r.now), ValidBefore(r.now, r.requirement),
                                     r.message.nonce, signature)
       IN  inv' = [inv EXCEPT ![i] =
                      [r EXCEPT !.pc = "paidRequest",
                                !.request = Request(r.params, r.agentWallet, payload),
                                !.lastResponse = NoResponse,
                                !.sentNonces = Append(@, payload.authorization.nonce),
                                !.gatewayCalls = r.gatewayCalls + 1]]
    /\ UNCHANGED <<walletProvider, providers, connectCalls>>

SignThrow(i) ==
    /\ inv[i].pc = "signTypedData"
    /\ \E t \in SignerThrows(i) : inv' = [inv EXCEPT ![i] = Throw(inv[i], t)]
    /\ UNCHANGED <<walletProvider, providers, connectCalls>>

\* PaidReturn with a loop on repeated 402s: a payment-required answer to the
\* paid request makes the invocation send the request again.
PaidReturnRetrying(i) ==
    /\ inv[i].pc = "paidRequest"
    /\ inv[i].gatewayCalls < 4
    /\ \E resp \in Responses(i) :
         LET r == [inv[i] EXCEPT !.lastResponse = resp]
         IN  IF resp.status = PaymentRequiredStatus
             THEN inv' = [inv EXCEPT ![i] =
                             [r EXCEPT !.gatewayCalls = @ + 1,
                                       !.sentNonces =
                                           Append(@, r.request.payment.authorization.nonce)]]
             ELSE inv' = [inv EXCEPT ![i] =
                             Return([r EXCEPT !.request = NoRequest], PaidResult(resp))]
    /\ UNCHANGED <<walletProvider, providers, connectCalls>>

\* The response to the paid request arrives: the result is made from it.
PaidReturn(i) ==
    /\ inv[i].pc = "paidRequest"
    /\ \E resp \in Responses(i) :
         LET decoded == resp.data.present /\ DecoderInvoked(resp)
             r == [inv[i] EXCEPT !.lastResponse = resp, !.request = NoRequest,
                                 !.decodeCalls = IF decoded THEN @ + 1 ELSE @,
                                 !.thrown = IF decoded /\ DecodeThrows(resp.paymentResponse)
                                            THEN Thrown("Error", "Invalid payment response")
                                            ELSE @]
         IN  inv' = [inv EXCEPT ![i] = Return(r, PaidResult(resp))]
    /\ UNCHANGED <<walletProvider, providers, connectCalls>>

Next ==
    /\ UNCHANGED <<tool, admin, server, console>>
    /\ \E i \in Invocations :
        \/ \E params \in ParamsInputs(i) : Call(i, params)
        \/ ConnectKeyReturn(i)
        \/ ConnectKeyThrow(i)
        \/ IsConnectedReturn(i)
        \/ GetAddressReturn(i)
        \/ GetAddressThrow(i)
        \/ InitialReturn(i)
        \/ GatewayThrow(i)
        \/ SignReturn(i)
        \/ SignThrow(i)
        \/ PaidReturn(i)

Spec == Init /\ [][Next]_vars

\* The steps that resume invocation i when what it awaits settles
Resume(i) ==
    /\ UNCHANGED <<tool, admin, server, console>>
    /\ \/ ConnectKeyReturn(i)
       \/ ConnectKeyThrow(i)
       \/ IsConnectedReturn(i)
       \/ GetAddressReturn(i)
       \/ GetAddressThrow(i)
       \/ InitialReturn(i)
       \/ GatewayThrow(i)
       \/ SignReturn(i)
       \/ SignThrow(i)
       \/ PaidReturn(i)

\* What wallet.isConnected() may answer when the wallet is any WalletProvider
ConnectedAnswers(i) == IF Extended(i) THEN BOOLEAN ELSE {TRUE}

\* The steps of executeQuery over a wallet that may report it is not connected
WalletNext ==
    /\ UNCHANGED <<tool, admin, server, console>>
    /\ \E i \in Invocations :
        \/ \E params \in ParamsInputs(i) : Call(i, params)
        \/ ConnectKeyReturn(i)
        \/ ConnectKeyThrow(i)
        \/ \E connected \in ConnectedAnswers(i) : IsConnectedAnswer(i, connected)
        \/ ConnectReturn(i)
        \/ ConnectThrow(i)
        \/ GetAddressReturn(i)
        \/ GetAddressThrow(i)
        \/ InitialReturn(i)
        \/ GatewayThrow(i)
        \/ SignReturn(i)
        \/ SignThrow(i)
        \/ PaidReturn(i)

WalletSpec == Init /\ [][WalletNext]_vars

\* Every awaited wallet, signer and gateway call eventually returns or throws
LiveSpec == Spec /\ \A i \in Invocations : WF_vars(Resume(i))

\* ------------------------------------------------------------ tool actions

\* The tool returns
ToolReturn(result) == [tool EXCEPT !.pc = "done", !.result = result]

\* A throw inside the try block of a tool
ToolThrow(thrown) ==
    [tool EXCEPT !.pc = "done", !.thrown = thrown, !.result = ToolCatch(thrown)]

\* depositCredits(input, wallet, gateway): validation, then await
\* wallet.getAddress()
DepositCreditsCall(amount) ==
    /\ tool.pc = "idle"
    /\ LET called == [tool EXCEPT !.name = "depositCredits", !.amount = amount]
           validationError == ValidateAmount(amount)
       IN  IF validationError # Null
           THEN tool' = [called EXCEPT !.pc = "done",
                                       !.result = ToolFailure(validationError)]
           ELSE tool' = [called EXCEPT !.pc = "getAddress",
                                       !.getAddressCalls = @ + 1]
    /\ UNCHANGED <<serviceVars, admin, server, console>>

\* wallet.getAddress() resolves: the instructions are returned
DepositGetAddressReturn ==
    /\ tool.name = "depositCredits" /\ tool.pc = "getAddress"
    /\ tool' = ToolReturn(DepositOutput(tool.amount, WalletAddress))
    /\ UNCHANGED <<serviceVars, admin, server, console>>

\* wallet.getAddress() rejects
DepositGetAddressThrow ==
    /\ tool.name = "depositCredits" /\ tool.pc = "getAddress"
    /\ \E t \in ToolWalletThrows : tool' = ToolThrow(t)
    /\ UNCHANGED <<serviceVars, admin, server, console>>

\* getPublisherDetails(input, gateway): validation, then await
\* gateway.getPublisher(input.publisher_id)
GetPublisherDetailsCall(id) ==
    /\ tool.pc = "idle"
    /\ LET called == [tool EXCEPT !.name = "getPublisherDetails", !.publisher_id = id]
       IN  IF IsInvalidPublisherId(id)
           THEN tool' = [called EXCEPT !.pc = "done",
                                       !.result = ToolFailure("publisher_id is required")]
           ELSE tool' = [called EXCEPT !.pc = "getPublisher",
                                       !.getPublisherCalls = @ + 1,
                                       !.getPublisherArgument = id]
    /\ UNCHANGED <<serviceVars, admin, server, console>>

GetPublisherReturn ==
    /\ tool.pc = "getPublisher"
    /\ \E publisher \in GatewayPublishers : tool' = ToolReturn(PublisherOutput(publisher))
    /\ UNCHANGED <<serviceVars, admin, server, console>>

GetPublisherThrow ==
    /\ tool.pc = "getPublisher"
    /\ \E t \in ToolGatewayThrows : tool' = ToolThrow(t)
    /\ UNCHANGED <<serviceVars, admin, server, console>>

\* listPublishers(input, gateway): the filters are built, then await
\* gateway.listPublishers(filters)
ListPublishersCall(category, type) ==
    /\ tool.pc = "idle"
    /\ tool' = [tool EXCEPT !.name = "listPublishers",
                            !.category = category, !.type = type,
                            !.pc = "listPublishers",
                            !.listPublishersCalls = @ + 1,
                            !.listPublishersArgument = BuildFilters(category, type)]
    /\ UNCHANGED <<serviceVars, admin, server, console>>

ListPublishersReturn ==
    /\ tool.pc = "listPublishers"
    /\ \E publishers \in GatewayPublisherLists :
          tool' = ToolReturn(PublishersOutput(publishers))
    /\ UNCHANGED <<serviceVars, admin, server, console>>

ListPublishersThrow ==
    /\ tool.pc = "listPublishers"
    /\ \E t \in ToolGatewayThrows : tool' = ToolThrow(t)
    /\ UNCHANGED <<serviceVars, admin, server, console>>

ToolsNext ==
    \/ \E amount \in Amounts : DepositCreditsCall(amount)
    \/ DepositGetAddressReturn
    \/ DepositGetAddressThrow
    \/ \E id \in PublisherIds : GetPublisherDetailsCall(id)
    \/ GetPublisherReturn
    \/ GetPublisherThrow
    \/ \E category \in Categories, type \in PublisherTypes :
          ListPublishersCall(category, type)
    \/ ListPublishersReturn
    \/ ListPublishersThrow

ToolsSpec == Init /\ [][ToolsNext]_vars

\* ------------------------------------------------- executeAdminQuery actions

\* executeAdminQuery with a wallet: it takes the cached provider or creates one
ExecuteAdminQueryCallWithWallet(sql, apiKey) ==
    /\ admin.pc = "idle"
    /\ ValidateAdmin(sql, apiKey) = Undefined
    /\ admin' = [admin EXCEPT !.sql = sql, !.apiKey = apiKey, !.pc = "fetch",
                              !.fetchCalls = @ + 1,
                              !.request = AdminRequest(sql, apiKey)]
    /\ providers' = IF walletProvider = 0 THEN Append(providers, NewProvider)
                    ELSE providers
    /\ walletProvider' = IF walletProvider = 0 THEN Len(providers) + 1
                         ELSE walletProvider
    /\ UNCHANGED <<connectCalls, inv, tool, server, console>>

\* executeAdminQuery(sql, apiKey): validation, then await fetch(url, ...)
ExecuteAdminQueryCall(sql, apiKey) ==
    /\ admin.pc = "idle"
    /\ LET called == [admin EXCEPT !.sql = sql, !.apiKey = apiKey]
           validationError == ValidateAdmin(sql, apiKey)
       IN  IF validationError # Undefined
           THEN admin' = [called EXCEPT !.pc = "done",
                                        !.result = Failure(validationError)]
           ELSE admin' = [called EXCEPT !.pc = "fetch",
                                        !.fetchCalls = @ + 1,
                                        !.request = AdminRequest(sql, apiKey)]
    /\ UNCHANGED <<serviceVars, tool, server, console>>

\* fetch resolves: the result follows from the status and the body
AdminFetchReturn ==
    /\ admin.pc = "fetch"
    /\ \E resp \in AdminResponses :
          admin' = [admin EXCEPT !.pc = "done", !.result = AdminResult(resp)]
    /\ UNCHANGED <<serviceVars, tool, server, console>>

\* fetch rejects
AdminFetchThrow ==
    /\ admin.pc = "fetch"
    /\ \E t \in {Thrown("Error", "fetch failed"), Thrown("NonError", "a thrown string")} :
          admin' = [admin EXCEPT !.pc = "done", !.result = AdminCatch(t)]
    /\ UNCHANGED <<serviceVars, tool, server, console>>

\* executeAdminQuery called on an instance that one executeQuery caller uses
AdminNext ==
    \/ \E sql \in {Missing, SqlEmpty, SqlBlank, SqlDrop, SqlSelect},
          apiKey \in {Missing, <<>>, <<" ">>, <<"k", "e", "y">>} :
          ExecuteAdminQueryCall(sql, apiKey)
    \/ AdminFetchReturn
    \/ AdminFetchThrow
    \/ /\ UNCHANGED <<tool, admin, server, console>>
       /\ \E params \in ParamsInputs(1) : Call(1, params)
    \/ Resume(1)

AdminSpec == Init /\ [][AdminNext]_vars

\* ------------------------------------------------ POST /api/execute-sql

\* The handler up to its await: validation of the body, then
\* serenService.executeQuery({ sql, providerId })
ExecuteSqlRequest(body) ==
    /\ server.pc = "idle"
    /\ IF ~SafeParse(body)
       THEN server' = [server EXCEPT !.body = body, !.pc = "done",
                                     !.responses = @ + 1, !.status = 400,
                                     !.json = Failure("Invalid request body")]
       ELSE server' = [server EXCEPT !.body = body, !.pc = "executeQuery",
                                     !.serviceCalls = @ + 1, !.params = body]
    /\ UNCHANGED <<serviceVars, tool, admin, console>>

\* executeQuery resolves: 200 with the fields of the result, or 500 with
\* result.error || 'Query execution failed'
ExecuteSqlReturn ==
    /\ server.pc = "executeQuery"
    /\ \E result \in ServiceResults :
          server' = [server EXCEPT
                        !.pc = "done", !.result = result, !.responses = @ + 1,
                        !.status = IF result.success THEN 200 ELSE 500,
                        !.json = IF result.success
                                 THEN [result EXCEPT !.error = Undefined]
                                 ELSE IF result.error \in {Undefined, ""}
                                 THEN Failure("Query execution failed")
                                 ELSE Failure(result.error)]
    /\ UNCHANGED <<serviceVars, tool, admin, console>>

\* executeQuery rejects: the catch block answers 500
ExecuteSqlThrow ==
    /\ server.pc = "executeQuery"
    /\ \E t \in {Thrown("Error", "boom"), Thrown("NonError", "a thrown string")} :
          server' = [server EXCEPT !.pc = "done", !.thrown = t, !.responses = @ + 1,
                                   !.status = 500, !.json = AdminCatch(t)]
    /\ UNCHANGED <<serviceVars, tool, admin, console>>

ServerNext ==
    \/ \E sql \in BodyValues, providerId \in BodyValues :
          ExecuteSqlRequest([sql |-> sql, providerId |-> providerId])
    \/ ExecuteSqlReturn
    \/ ExecuteSqlThrow

ServerSpec == Init /\ [][ServerNext]_vars

\* ------------------------------------------------- AdminConsole handlers

\* A click on the Execute button, which is disabled while status is
\* 'executing': executeQuery up to its await of axios.post
ConsoleExecute ==
    /\ console.status # "executing"
    /\ console.started < MaxRequests
    /\ IF Trim(console.query) = <<>>
       THEN console' = [console EXCEPT !.error = "Please provide a SQL query",
                                       !.status = "error",
                                       !.output = "Error: Please provide a SQL query",
                                       !.shown = 0]
       ELSE console' = [console EXCEPT !.status = "executing",
                                       !.error = Undefined,
                                       !.results = NoData,
                                       !.output = "Executing admin command...",
                                       !.started = @ + 1,
                                       !.inFlight = @ \cup {console.started + 1},
                                       !.shown = 0]
    /\ UNCHANGED <<serviceVars, tool, admin, server>>

\* axios.post of request r settles: with a success body, with a failure
\* body, or with an error; executeQuery sets the state from it
ConsoleSettle(r) ==
    /\ r \in console.inFlight
    /\ \/ \E data \in {DataPlain} :
             console' = [console EXCEPT !.inFlight = @ \ {r}, !.shown = r,
                                        !.results = data,
                                        !.status = "success",
                                        !.output = "Query executed successfully."]
       \/ \E errorMsg \in {"relation does not exist", "Network Error"} :
             console' = [console EXCEPT !.inFlight = @ \ {r}, !.shown = r,
                                        !.error = errorMsg,
                                        !.status = "error",
                                        !.output = "Error"]
    /\ UNCHANGED <<serviceVars, tool, admin, server>>

\* A click on a Quick Action
InsertTemplate(template) ==
    /\ console' = [console EXCEPT !.query = template, !.output = "",
                                  !.error = Undefined, !.results = NoData,
                                  !.status = "idle", !.shown = 0]
    /\ UNCHANGED <<serviceVars, tool, admin, server>>

\* Typing in the textarea: onChange
SetQuery(text) ==
    /\ console' = [console EXCEPT !.query = text]
    /\ UNCHANGED <<serviceVars, tool, admin, server>>

ConsoleNext ==
    \/ ConsoleExecute
    \/ \E r \in 1..MaxRequests : ConsoleSettle(r)
    \/ \E template \in Templates : InsertTemplate(template)
    \/ \E text \in {<<>>, SqlBlank, SqlSelect} : SetQuery(text)

ConsoleSpec == Init /\ [][ConsoleNext]_vars

\* ----------------------------------------------------------------- claims

\* A payment-required response that offers at least one method
OffersMethod(resp) ==
    /\ resp.status = 402
    /\ resp.paymentRequired.present
    /\ Len(resp.paymentRequired.accepts) > 0

\* The failures executeQuery returns for input it does not accept
ValidationErrors ==
    {"providerId is required", "sql is required", "Only SELECT queries are allowed"}

\* C1: executeQuery attempts exactly one paid retry. In every step of every
\* invocation the gateway has been called at most twice; the first call
\* carries no payload; the second call is made only from a state in which the
\* first response was payment-required with a non-empty accepts list; and
\* the step that receives the second response ends the invocation without
\* sending anything more.
C1_ExactlyOnePaidRetry ==
    [][\A i \in Invocations :
          /\ inv'[i].gatewayCalls <= 2
          /\ inv'[i].gatewayCalls # inv[i].gatewayCalls =>
                \/ /\ inv[i].gatewayCalls = 0
                   /\ inv'[i].gatewayCalls = 1
                   /\ inv'[i].request.sent
                   /\ ~inv'[i].request.payment.present
                \/ /\ inv[i].gatewayCalls = 1
                   /\ inv'[i].gatewayCalls = 2
                   /\ OffersMethod(inv[i].initialResult)
                   /\ inv'[i].request.sent
                   /\ inv'[i].request.payment.present
          /\ (inv[i].gatewayCalls = 2 /\ inv'[i] # inv[i]) =>
                /\ inv'[i].pc = "done"
                /\ ~inv'[i].request.sent
      ]_vars

\* C1 witness: an invocation has ended after two gateway calls, the second
\* of which was answered with payment-required again.
C1_Witness ==
    \E i \in Invocations :
        /\ inv[i].pc = "done"
        /\ inv[i].gatewayCalls = 2
        /\ OffersMethod(inv[i].lastResponse)

\* A statement that is syntactically one read-only SELECT: the keyword SELECT
\* (any case, after leading whitespace), a word boundary, and no second
\* statement after a semicolon.
IsSingleStatement(text) ==
    \A k \in 1..Len(text) :
        text[k] = ";" => \A m \in (k + 1)..Len(text) : text[m] \in Whitespace

IsReadOnlySelect(sql) ==
    LET text == ToUpperCase(Trim(sql))
    IN  /\ StartsWith(text, SELECT)
        /\ Len(text) > Len(SELECT) => text[Len(SELECT) + 1] \in Whitespace
        /\ IsSingleStatement(text)

\* C2: a statement that is not syntactically a read-only SELECT is rejected
\* with a validation failure before any I/O: an invocation called with such
\* a statement is done, has failed with a validation error, holds no wallet
\* and has made no signature request and no gateway call.
C2_NonSelectRejected ==
    \A i \in Invocations :
        (inv[i].pc # "start" /\ ~IsReadOnlySelect(inv[i].params.sql)) =>
            /\ inv[i].pc = "done"
            /\ ~inv[i].result.success
            /\ inv[i].result.error \in ValidationErrors
            /\ inv[i].gatewayCalls = 0
            /\ inv[i].signCalls = 0

\* The field a call leaves empty, as executeQuery names it
MissingFieldError(params) ==
    IF params.providerId = "" THEN "providerId is required" ELSE "sql is required"

\* C3: the step that calls executeQuery with an empty providerId or an empty
\* sql ends the invocation at once with a failure naming the missing field;
\* the step creates no wallet provider, starts no connect, asks for no
\* signature and sends nothing to the gateway.
C3_EmptyInputRejected ==
    [][\A i \in Invocations :
          (/\ inv[i].pc = "start"
           /\ inv'[i].pc # "start"
           /\ (inv'[i].params.providerId = "" \/ inv'[i].params.sql = <<>>)) =>
              /\ inv'[i].pc = "done"
              /\ ~inv'[i].result.success
              /\ inv'[i].result.error = MissingFieldError(inv'[i].params)
              /\ inv'[i].gatewayCalls = 0
              /\ inv'[i].signCalls = 0
              /\ ~inv'[i].request.sent
              /\ UNCHANGED <<walletProvider, providers, connectCalls>>
      ]_vars

\* C3 witness: a call with a provider id and an empty sql has been rejected
\* for its sql.
C3_Witness ==
    \E i \in Invocations :
        /\ inv[i].pc = "done"
        /\ inv[i].params.providerId # ""
        /\ inv[i].params.sql = <<>>
        /\ inv[i].result.error = "sql is required"
        /\ providers = <<>>

\* C4: when the first response is payment-required with an empty accepts
\* list, the invocation is done with the failure 'No payment method
\* available'; the signer was not invoked and no second request was sent.
C4_NoMethodNoSignature ==
    \A i \in Invocations :
        (/\ inv[i].gatewayCalls = 1
         /\ inv[i].lastResponse.status = 402
         /\ inv[i].lastResponse.paymentRequired.present
         /\ inv[i].lastResponse.paymentRequired.accepts = <<>>) =>
            /\ inv[i].pc = "done"
            /\ ~inv[i].result.success
            /\ inv[i].result.error = "No payment method available"
            /\ inv[i].signCalls = 0
            /\ ~inv[i].request.sent

\* C4 witness: an invocation has received such a response and has ended.
C4_Witness ==
    \E i \in Invocations :
        /\ inv[i].pc = "done"
        /\ inv[i].gatewayCalls = 1
        /\ inv[i].lastResponse.status = 402
        /\ inv[i].lastResponse.paymentRequired.present
        /\ inv[i].lastResponse.paymentRequired.accepts = <<>>

\* Failure messages that name no cause
UnclassifiedErrors ==
    {"No data returned from gateway", "Unexpected response from gateway",
     "Unknown error occurred"}

\* C5: if the authorised retry is itself answered with payment-required, the
\* invocation ends with a failure that is classified as a rejected payment
\* (never with success), having signed once and called the gateway twice.
C5_SecondChallengeIsPaymentRejected ==
    \A i \in Invocations :
        (/\ inv[i].pc = "done"
         /\ inv[i].gatewayCalls = 2
         /\ inv[i].lastResponse.status = 402) =>
            /\ ~inv[i].result.success
            /\ inv[i].result.error \notin UnclassifiedErrors
            /\ inv[i].signCalls = 1

\* C6: if the signer throws UserRejectedError, the invocation ends with the
\* user-rejection failure and the gateway has been called exactly once.
C6_UserRejectionNoRetry ==
    \A i \in Invocations :
        inv[i].thrown.class = "UserRejectedError" =>
            /\ inv[i].pc = "done"
            /\ ~inv[i].result.success
            /\ inv[i].result.error = "User rejected the payment request"
            /\ inv[i].gatewayCalls = 1
            /\ ~inv[i].request.sent

\* C6 witness: the signer was asked once and rejected.
C6_Witness ==
    \E i \in Invocations :
        /\ inv[i].pc = "done"
        /\ inv[i].thrown.class = "UserRejectedError"
        /\ inv[i].signCalls = 1

\* The providers whose connect handshake has completed
ConnectedProviders == {p \in DOMAIN providers : providers[p].connected}

\* C7: the signer handle is initialise-once under concurrency: at any time at
\* most one wallet provider is being connected or is cached, so two
\* invocations are never both suspended in getWalletProvider's connect and
\* no second provider is created while one is cached.
C7_InitialiseOnce ==
    /\ Cardinality({i \in Invocations : inv[i].pc = "connectKey"}) <= 1
    /\ walletProvider # 0 => \A i \in Invocations : inv[i].pc # "connectKey"

\* C8: across any sequence of invocations on the instance the wallet connect
\* handshake is completed at most once.
C8_ConnectAtMostOnce == Cardinality(ConnectedProviders) <= 1

\* The requirement selected from the first response of invocation i
FirstOffered(i) == inv[i].lastResponse.paymentRequired.accepts[1]

\* C9: when the selected requirement has maxTimeoutSeconds <= 0, building the
\* authorization fails: the invocation is done with a failure, no message
\* was handed to the signer and no payload was sent.
C9_NonPositiveTimeoutRejected ==
    \A i \in Invocations :
        (/\ inv[i].gatewayCalls = 1
         /\ OffersMethod(inv[i].lastResponse)
         /\ FirstOffered(i).maxTimeoutSeconds <= 0) =>
            /\ inv[i].pc = "done"
            /\ ~inv[i].result.success
            /\ inv[i].signCalls = 0

\* The integer a decimal string denotes
DigitValue(c) ==
    CASE c = "0" -> 0 [] c = "1" -> 1 [] c = "2" -> 2 [] c = "3" -> 3 [] c = "4" -> 4
      [] c = "5" -> 5 [] c = "6" -> 6 [] c = "7" -> 7 [] c = "8" -> 8 [] c = "9" -> 9

RECURSIVE DigitsValue(_)
DigitsValue(digits) ==
    IF digits = <<>> THEN 0
    ELSE 10 * DigitsValue(SubSeq(digits, 1, Len(digits) - 1)) + DigitValue(digits[Len(digits)])

DecimalValue(text) ==
    IF text # <<>> /\ Head(text) = "-" THEN 0 - DigitsValue(Tail(text)) ELSE DigitsValue(text)

\* C10: every authorization that is handed to the signer or sent to the
\* gateway has validAfter < validBefore.
C10_WindowOrdered ==
    \A i \in Invocations :
        /\ inv[i].pc \in {"signTypedData", "paidRequest"} =>
              inv[i].message.validAfter < inv[i].message.validBefore
        /\ inv[i].request.payment.present =>
              DecimalValue(inv[i].request.payment.authorization.validAfter)
                < DecimalValue(inv[i].request.payment.authorization.validBefore)

\* C11: for every requirement with maxTimeoutSeconds > 0 and build time now,
\* the window that is signed and sent is validAfter = now - 60 and
\* validBefore = now + maxTimeoutSeconds, so validAfter < now < validBefore
\* and validBefore - now = maxTimeoutSeconds.
C11_WindowArithmetic ==
    \A i \in Invocations :
        (/\ inv[i].pc \in {"signTypedData", "paidRequest"}
         /\ inv[i].requirement.maxTimeoutSeconds > 0) =>
            LET after == inv[i].message.validAfter
                before == inv[i].message.validBefore
            IN  /\ after = inv[i].now - 60
                /\ before = inv[i].now + inv[i].requirement.maxTimeoutSeconds
                /\ after < inv[i].now /\ inv[i].now < before
                /\ before - inv[i].now = inv[i].requirement.maxTimeoutSeconds
                /\ inv[i].request.payment.present =>
                      /\ DecimalValue(inv[i].request.payment.authorization.validAfter)
                            = after
                      /\ DecimalValue(inv[i].request.payment.authorization.validBefore)
                            = before

\* C11 witness: a payload built for a requirement with a positive timeout at
\* the later of the build times has been sent.
C11_Witness ==
    \E i \in Invocations :
        /\ inv[i].pc = "paidRequest"
        /\ inv[i].requirement.maxTimeoutSeconds = 30
        /\ inv[i].now = 1700000301

\* The payloads sent so far, as (invocation, position) pairs
SentPayloads ==
    {p \in Invocations \X (1..2) : p[2] <= Len(inv[p[1]].sentNonces)}

\* C12: no two payloads sent to the gateway share a nonce, whether built by
\* one invocation or by two invocations from identical inputs, and the
\* payload of an invocation is sent in one request only.
C12_NoNonceReuse ==
    /\ \A p, q \in SentPayloads :
          p # q => inv[p[1]].sentNonces[p[2]] # inv[q[1]].sentNonces[q[2]]
    /\ \A i \in Invocations : Len(inv[i].sentNonces) <= 1

\* C12 witness: two invocations with identical parameters, both answered by
\* the same challenge, have each sent a payload.
C12_Witness ==
    \E i, j \in Invocations :
        /\ i # j
        /\ inv[i].params = inv[j].params
        /\ inv[i].initialResult = inv[j].initialResult
        /\ inv[i].pc = "paidRequest" /\ inv[j].pc = "paidRequest"
        /\ Len(inv[i].sentNonces) = 1 /\ Len(inv[j].sentNonces) = 1

\* The five QueryResult fields of a result are those of the data
CarriesData(result, data) ==
    /\ result.rows = data.rows
    /\ result.rowCount = data.rowCount
    /\ result.estimatedCost = data.estimatedCost
    /\ result.actualCost = data.actualCost
    /\ result.executionTime = data.executionTime

\* C13: when the paid request is answered with success and data, the result
\* is a success that carries exactly the rows, rowCount, estimatedCost,
\* actualCost and executionTime of that answer, and its txHash is the
\* transaction of the answer's settlement record.
C13_PaidSuccessCarriesData ==
    \A i \in Invocations :
        (/\ inv[i].pc = "done"
         /\ inv[i].gatewayCalls = 2
         /\ inv[i].lastResponse.status = 200
         /\ inv[i].lastResponse.data.present
         /\ inv[i].lastResponse.data.settlementTx # Undefined) =>
            /\ inv[i].result.success
            /\ inv[i].result.error = Undefined
            /\ CarriesData(inv[i].result, inv[i].lastResponse.data)
            /\ inv[i].result.txHash = inv[i].lastResponse.data.settlementTx

\* C13 witness: the exchange of the unit test has ended.
C13_Witness ==
    \E i \in Invocations :
        /\ inv[i].pc = "done"
        /\ inv[i].gatewayCalls = 2
        /\ inv[i].signCalls = 1
        /\ inv[i].lastResponse.status = 200
        /\ inv[i].lastResponse.data.rows = "[{count: 42}]"
        /\ inv[i].result.txHash = "0xtx456"

\* C14: when the status of the first response is not 402, the invocation is
\* done after that one gateway call, the signer was never invoked, and the
\* result is made from the body alone: a success with the body's data, or
\* a failure when there is none.
C14_FinalResponsePassedThrough ==
    \A i \in Invocations :
        (/\ inv[i].gatewayCalls = 1
         /\ inv[i].lastResponse.status \notin {0, 402}) =>
            /\ inv[i].pc = "done"
            /\ inv[i].signCalls = 0
            /\ ~inv[i].request.sent
            /\ inv[i].sentNonces = <<>>
            /\ inv[i].result.success = inv[i].lastResponse.data.present
            /\ inv[i].result.success =>
                  CarriesData(inv[i].result, inv[i].lastResponse.data)

\* C14 witness: a first response with status 200 and data has been returned.
C14_Witness ==
    \E i \in Invocations :
        /\ inv[i].pc = "done"
        /\ inv[i].gatewayCalls = 1
        /\ inv[i].lastResponse.status = 200
        /\ inv[i].result.success
        /\ inv[i].result.rows = "[{id: 1}]"

\* C15: when the gateway client throws an Error, in the first or in the
\* second phase, the invocation is done with a failure whose error is the
\* message of that Error, and the throw is followed by no gateway call.
C15_GatewayErrorVerbatim ==
    [][\A i \in Invocations :
          /\ (/\ inv[i].pc \in {"initialRequest", "paidRequest"}
              /\ inv'[i].thrown # inv[i].thrown
              /\ inv'[i].lastResponse = NoResponse
              /\ inv'[i].thrown.class = "Error") =>
                 /\ inv'[i].pc = "done"
                 /\ ~inv'[i].result.success
                 /\ inv'[i].result.error = inv'[i].thrown.message
                 /\ inv'[i].gatewayCalls = inv[i].gatewayCalls
                 /\ ~inv'[i].request.sent
          /\ inv[i].thrown # NotThrown =>
                 /\ inv'[i].gatewayCalls = inv[i].gatewayCalls
                 /\ ~inv'[i].request.sent]_vars

\* C15 witness: the gateway threw during the authorised retry.
C15_Witness ==
    \E i \in Invocations :
        /\ inv[i].pc = "done"
        /\ inv[i].gatewayCalls = 2
        /\ inv[i].signCalls = 1
        /\ inv[i].thrown = Thrown("Error", "Gateway unavailable")
        /\ inv[i].result.error = "Gateway unavailable"

\* A structured result: a success, or a failure with its error text
IsStructuredResult(result) ==
    IF result.success THEN result.error = Undefined
    ELSE result.error # Undefined

\* C16: executeQuery never rejects: whatever was thrown by the wallet, the
\* signer or the gateway, Error or not, the invocation is done with a
\* structured failure, and every invocation that is done has a structured
\* result.
C16_NeverRejects ==
    \A i \in Invocations :
        /\ inv[i].pc = "done" => IsStructuredResult(inv[i].result)
        /\ inv[i].thrown # NotThrown =>
              /\ inv[i].pc = "done"
              /\ ~inv[i].result.success
              /\ inv[i].result.error # Undefined

\* C16 witness: the signer threw a value that is no Error.
C16_Witness ==
    \E i \in Invocations :
        /\ inv[i].pc = "done"
        /\ inv[i].signCalls = 1
        /\ inv[i].thrown.class = "NonError"

\* C17: the signer is invoked at most once per invocation, and exactly once
\* when the retry has been sent; it is invoked only in the step that
\* receives a 402 response with a non-empty accepts list, and the retry is
\* sent only in the step in which the signature over the built message is
\* returned.
C17_SignOnceBeforeRetry ==
    [][\A i \in Invocations :
          /\ inv'[i].signCalls <= 1
          /\ inv'[i].gatewayCalls >= 2 => inv'[i].signCalls = 1
          /\ inv'[i].signCalls # inv[i].signCalls =>
                /\ inv[i].pc = "initialRequest"
                /\ inv'[i].pc = "signTypedData"
                /\ inv'[i].gatewayCalls = 1
                /\ OffersMethod(inv'[i].lastResponse)
                /\ ~inv'[i].request.sent
          /\ inv'[i].gatewayCalls > 1 /\ inv[i].gatewayCalls <= 1 =>
                /\ inv[i].pc = "signTypedData"
                /\ inv[i].signCalls = 1
                /\ inv'[i].request.payment.present
                /\ inv'[i].request.payment.signature.signer = WalletAddress
                /\ inv'[i].request.payment.signature.message = inv[i].message]_vars

\* C17 witness: an invocation has signed once and sent the retry.
C17_Witness ==
    \E i \in Invocations :
        /\ inv[i].pc = "paidRequest"
        /\ inv[i].signCalls = 1
        /\ inv[i].gatewayCalls = 2
        /\ inv[i].request.payment.signature.message = inv[i].message

\* C18: the first gateway call carries the caller's providerId and sql, the
\* wallet address and no payload; the second carries the same providerId,
\* agentWallet and sql, and the payload.
C18_RetryResubmitsRequest ==
    [][\A i \in Invocations :
          inv'[i].gatewayCalls # inv[i].gatewayCalls =>
             /\ inv'[i].request.sent
             /\ inv'[i].request.publisherId = inv'[i].params.providerId
             /\ inv'[i].request.sql = inv'[i].params.sql
             /\ inv'[i].request.agentWallet = WalletAddress
             /\ inv'[i].params = inv[i].params
             /\ inv'[i].request.payment.present = (inv[i].gatewayCalls = 1)]_vars

\* C18 witness: the retry for a text with surrounding whitespace and lower
\* case is at the gateway.
C18_Witness ==
    \E i \in Invocations :
        /\ inv[i].pc = "paidRequest"
        /\ inv[i].request.sent
        /\ inv[i].request.payment.present
        /\ inv[i].request.sql = SqlSelect
        /\ inv[i].request.sql # ToUpperCase(Trim(SqlSelect))

\* C19: whatever the length of the accepts list, what is signed and sent is
\* made from its first entry: scheme, network, recipient, amount and
\* timeout are those of accepts[0].
C19_FirstMethodSelected ==
    \A i \in Invocations :
        inv[i].pc \in {"signTypedData", "paidRequest"} =>
            LET first == inv[i].initialResult.paymentRequired.accepts[1]
            IN  /\ inv[i].message.to = first.payTo
                /\ inv[i].message.value = first.maxAmountRequired
                /\ inv[i].message.validBefore - inv[i].now = first.maxTimeoutSeconds
                /\ inv[i].request.payment.present =>
                      /\ inv[i].request.payment.scheme = first.scheme
                      /\ inv[i].request.payment.network = first.network
                      /\ inv[i].request.payment.authorization.to = first.payTo
                      /\ inv[i].request.payment.authorization.value
                            = first.maxAmountRequired
                      /\ DecimalValue(inv[i].request.payment.authorization.validBefore)
                            - inv[i].now = first.maxTimeoutSeconds

\* C19 witness: a payload for a list of two different methods has been sent.
C19_Witness ==
    \E i \in Invocations :
        /\ inv[i].pc = "paidRequest"
        /\ Len(inv[i].initialResult.paymentRequired.accepts) = 2
        /\ inv[i].initialResult.paymentRequired.accepts[1]
              # inv[i].initialResult.paymentRequired.accepts[2]

\* A decimal string: digits, after an optional sign
IsDecimalString(text) ==
    LET digits == IF text # <<>> /\ Head(text) = "-" THEN Tail(text) ELSE text
    IN  /\ digits # <<>>
        /\ \A k \in 1..Len(digits) :
              digits[k] \in {"0", "1", "2", "3", "4", "5", "6", "7", "8", "9"}

\* C20: the payload that is sent has x402Version 1, the scheme and network of
\* the selected requirement, authorization.to its payTo, authorization.from
\* the wallet address, authorization.value its maxAmountRequired string
\* unchanged, and validAfter and validBefore the decimal strings of the
\* signed window.
C20_PayloadIsProjection ==
    \A i \in Invocations :
        inv[i].request.payment.present =>
            LET payment == inv[i].request.payment
                requirement == inv[i].requirement
            IN  /\ payment.x402Version = 1
                /\ payment.scheme = requirement.scheme
                /\ payment.network = requirement.network
                /\ payment.authorization.to = requirement.payTo
                /\ payment.authorization.from = WalletAddress
                /\ payment.authorization.value = requirement.maxAmountRequired
                /\ IsDecimalString(payment.authorization.validAfter)
                /\ IsDecimalString(payment.authorization.validBefore)
                /\ DecimalValue(payment.authorization.validAfter)
                      = inv[i].message.validAfter
                /\ DecimalValue(payment.authorization.validBefore)
                      = inv[i].message.validBefore

\* C20 witness: a payload whose amount string has a leading zero is sent.
C20_Witness ==
    \E i \in Invocations :
        /\ inv[i].request.payment.present
        /\ inv[i].requirement.maxAmountRequired = "0500"
        /\ inv[i].request.payment.authorization.value = "0500"

\* C21 as stated: whenever the paid retry returns data, the result is a
\* success.
C21_DataAlwaysSuccess ==
    \A i \in Invocations :
        (/\ inv[i].pc = "done"
         /\ inv[i].gatewayCalls = 2
         /\ inv[i].lastResponse.data.present) =>
            inv[i].result.success

\* C21, amended: whenever the paid retry returns data and the decoder has not
\* thrown, the result is a success with that data, and its txHash is
\* undefined when the answer has neither an inline settlement transaction
\* nor a payment-response field.
C21_MissingSettlementIsNoError ==
    \A i \in Invocations :
        (/\ inv[i].pc = "done"
         /\ inv[i].gatewayCalls = 2
         /\ inv[i].lastResponse.data.present
         /\ inv[i].thrown = NotThrown) =>
            /\ inv[i].result.success
            /\ CarriesData(inv[i].result, inv[i].lastResponse.data)
            /\ (/\ inv[i].lastResponse.data.settlementTx = Undefined
                /\ inv[i].lastResponse.paymentResponse = Undefined) =>
                   inv[i].result.txHash = Undefined

\* C21 witness: a paid answer with data and no settlement information at all
\* has been returned as a success.
C21_Witness ==
    \E i \in Invocations :
        /\ inv[i].pc = "done"
        /\ inv[i].gatewayCalls = 2
        /\ inv[i].lastResponse.data.present
        /\ inv[i].lastResponse.data.settlementTx = Undefined
        /\ inv[i].lastResponse.paymentResponse = Undefined
        /\ inv[i].result.success
        /\ inv[i].result.txHash = Undefined

\* C22: the txHash of a paid success is the inline settlement transaction
\* when there is one, and then the decoder was not invoked; otherwise, with
\* a payment-response field, it is the transaction of the decoded field and
\* the decoder was invoked once.
C22_SettlementBeforeDecoder ==
    \A i \in Invocations :
        (/\ inv[i].pc = "done"
         /\ inv[i].gatewayCalls = 2
         /\ inv[i].lastResponse.data.present) =>
            IF inv[i].lastResponse.data.settlementTx # Undefined
            THEN /\ inv[i].result.txHash = inv[i].lastResponse.data.settlementTx
                 /\ inv[i].decodeCalls = 0
            ELSE /\ inv[i].decodeCalls
                       = IF inv[i].lastResponse.paymentResponse # Undefined THEN 1 ELSE 0
                 /\ inv[i].lastResponse.paymentResponse = "encoded-settlement" =>
                       inv[i].result.txHash = "0xtx123"

\* C22 witness: both sources were offered and the inline one was used; the
\* decoder was not invoked.
C22_Witness ==
    \E i \in Invocations :
        /\ inv[i].pc = "done"
        /\ inv[i].gatewayCalls = 2
        /\ inv[i].lastResponse.data.settlementTx = "0xtx456"
        /\ inv[i].lastResponse.paymentResponse = "encoded-settlement"
        /\ inv[i].result.txHash = "0xtx456"
        /\ inv[i].decodeCalls = 0

OwnPayload(i) ==
    LET payment == inv[i].request.payment
        offered == inv[i].initialResult.paymentRequired.accepts[1]
    IN  /\ payment.authorization.nonce = inv[i].message.nonce
        /\ payment.signature.message = inv[i].message
        /\ inv[i].message.nonce = i
        /\ inv[i].message.validAfter = inv[i].now - 60
        /\ inv[i].message.validBefore = inv[i].now + offered.maxTimeoutSeconds
        /\ payment.authorization.value = offered.maxAmountRequired
        /\ payment.authorization.to = offered.payTo
        /\ inv[i].request.publisherId = inv[i].params.providerId
        /\ inv[i].request.sql = inv[i].params.sql

\* C24: concurrent invocations do not interfere. Every step is the step of
\* one invocation and leaves the locals, the request and the result of every
\* other invocation as they were; the payload an invocation sends is made
\* of its own parameters, message, build time and first response; and the
\* data of a success is the data of the invocation's own last response.
C24_NoInterference ==
    /\ [](\A i \in Invocations :
             /\ inv[i].request.payment.present => OwnPayload(i)
             /\ (inv[i].pc = "done" /\ inv[i].result.success) =>
                   /\ inv[i].lastResponse.data.present
                   /\ CarriesData(inv[i].result, inv[i].lastResponse.data))
    /\ [][\E i \in Invocations : \A j \in Invocations \ {i} : inv'[j] = inv[j]]_vars

\* C24 witness: two invocations have payloads for different methods at the
\* gateway at the same time.
C24_Witness ==
    \E i, j \in Invocations :
        /\ i # j
        /\ inv[i].pc = "paidRequest" /\ inv[j].pc = "paidRequest"
        /\ inv[i].request.payment.authorization.to
              # inv[j].request.payment.authorization.to
        /\ inv[i].request.payment.authorization.value
              # inv[j].request.payment.authorization.value

\* C25: executeQuery changes no field of the instance but walletProvider, and
\* walletProvider only from null to a provider: once it holds a provider it
\* keeps that provider.
C25_WalletProviderSetOnce ==
    [][walletProvider # 0 => walletProvider' = walletProvider]_vars

\* C26: provided every awaited call eventually returns or throws, every
\* invocation that was made eventually is done, with a result that is
\* either a success or a failure; and an invocation that is done takes no
\* further step: it makes no wallet, signer or gateway call.
C26_ReachesTerminalState ==
    /\ \A i \in Invocations : (inv[i].pc # "start") ~> (inv[i].pc = "done")
    /\ [](\A i \in Invocations :
             inv[i].pc = "done" =>
                /\ IsStructuredResult(inv[i].result)
                /\ ~inv[i].request.sent)
    /\ [][\A i \in Invocations : inv[i].pc = "done" => inv'[i] = inv[i]]_vars

\* C26 witness: both kinds of terminal state at once, a success after the
\* retry and a failure.
C26_Witness ==
    \E i, j \in Invocations :
        /\ inv[i].pc = "done" /\ inv[i].result.success /\ inv[i].gatewayCalls = 2
        /\ inv[j].pc = "done" /\ ~inv[j].result.success /\ inv[j].gatewayCalls >= 1

\* C27: when wallet.isConnected() answers no, connect is called, and that
\* before the address is read and before the first gateway request; when it
\* answers yes, connect is not called, and from the reading of the address
\* on the invocation calls connect no more. Every request sent carries the
\* address the wallet returned as agentWallet.
C27_ConnectBeforeAddress ==
    [][\A i \in Invocations :
          /\ (inv[i].pc = "isConnected" /\ inv'[i].pc # "isConnected") =>
                IF inv'[i].connected
                THEN inv'[i].pc = "getAddress" /\ connectCalls' = connectCalls
                ELSE /\ inv'[i].pc = "connect"
                     /\ connectCalls' = connectCalls + 1
                     /\ inv'[i].agentWallet = Undefined
                     /\ inv'[i].gatewayCalls = 0
          /\ (inv'[i].pc = "getAddress" /\ inv[i].pc # "getAddress") =>
                \/ inv[i].pc = "isConnected" /\ inv'[i].connected
                \/ inv[i].pc = "connect" /\ ~inv[i].connected
          /\ (inv'[i].agentWallet # inv[i].agentWallet /\ inv'[i].pc # "done") =>
                inv[i].pc = "getAddress" /\ inv'[i].agentWallet = WalletAddress
          /\ inv'[i].gatewayCalls # inv[i].gatewayCalls =>
                /\ inv'[i].agentWallet = WalletAddress
                /\ inv'[i].request.agentWallet = inv'[i].agentWallet
          /\ (/\ inv[i].pc \in {"getAddress", "initialRequest", "signTypedData",
                                "paidRequest"}
              /\ inv'[i] # inv[i]) =>
                connectCalls' = connectCalls]_vars

\* C27 witness: the wallet answered that it is not connected, connect was
\* called and resolved, and the first request is at the gateway.
C27_Witness ==
    \E i \in Invocations :
        /\ inv[i].pc = "initialRequest"
        /\ ~inv[i].connected
        /\ inv[i].request.sent
        /\ inv[i].request.agentWallet = WalletAddress

\* The text is digits with at most one decimal point and at least one digit
IsDigitsAndPoint(text) ==
    /\ \A k \in 1..Len(text) : text[k] \in DecimalDigits \cup {"."}
    /\ Cardinality({k \in 1..Len(text) : text[k] = "."}) <= 1
    /\ \E k \in 1..Len(text) : text[k] \in DecimalDigits

\* The whole text, surrounding white space aside, is a decimal numeral with
\* an optional sign
IsDecimalNumeral(text) ==
    LET t == Trim(text)
        body == IF t # <<>> /\ t[1] \in {"-", "+"} THEN Tail(t) ELSE t
    IN  IsDigitsAndPoint(body)

\* The amount is given, is a valid number, and is neither zero nor negative
IsValidPositiveAmount(amount) ==
    /\ ~IsFalsyText(amount)
    /\ IsDecimalNumeral(amount)
    /\ Trim(amount)[1] # "-"
    /\ \E k \in 1..Len(amount) : amount[k] \in DecimalDigits \ {"0"}

\* The error messages of depositCredits that mention 'amount'
MentionsAmount(error) ==
    error \in {"amount is required", "amount must be a valid number",
               "amount must be greater than zero"}

\* C28: depositCredits rejects every amount that is missing, not a valid
\* number, zero or negative: the call is done with a failure whose error
\* mentions 'amount', and getAddress has not been called. When
\* wallet.getAddress fails on a valid amount, the call is done with a failure
\* result that carries the message of the wallet's error.
C28_InvalidAmountRejected ==
    tool.name = "depositCredits" =>
        /\ ~IsValidPositiveAmount(tool.amount) =>
              /\ tool.pc = "done"
              /\ ~tool.result.success
              /\ MentionsAmount(tool.result.error)
              /\ tool.getAddressCalls = 0
        /\ tool.thrown # NotThrown =>
              /\ tool.pc = "done"
              /\ ~tool.result.success
              /\ tool.thrown.class = "Error" => tool.result.error = tool.thrown.message

\* C29: getPublisherDetails rejects a missing, empty or whitespace-only
\* publisher_id with the failure 'publisher_id is required' and without
\* calling the gateway. For any other id it calls gateway.getPublisher
\* exactly once, with the id as given, and returns success with the
\* publisher the gateway resolved to, or a failure with the message of the
\* error the gateway threw.
C29_PublisherIdChecked ==
    tool.name = "getPublisherDetails" =>
        IF \/ tool.publisher_id = Missing
           \/ \A k \in 1..Len(tool.publisher_id) : tool.publisher_id[k] = " "
        THEN /\ tool.pc = "done"
             /\ tool.result = ToolFailure("publisher_id is required")
             /\ tool.getPublisherCalls = 0
        ELSE /\ tool.getPublisherCalls = 1
             /\ tool.getPublisherArgument = tool.publisher_id
             /\ tool.pc = "done" =>
                   IF tool.thrown = NotThrown
                   THEN /\ tool.result.success
                        /\ tool.result.publisher \in GatewayPublishers
                   ELSE /\ ~tool.result.success
                        /\ tool.thrown.class = "Error" =>
                              tool.result.error = tool.thrown.message

\* A whitespace-only id was rejected without a gateway call
C29_Witness ==
    /\ tool.name = "getPublisherDetails"
    /\ tool.pc = "done"
    /\ tool.publisher_id = <<" ", " ">>
    /\ tool.result = ToolFailure("publisher_id is required")
    /\ tool.getPublisherCalls = 0

\* C30: listPublishers calls gateway.listPublishers exactly once, with
\* filters that hold the category exactly when a non-empty category was
\* supplied and the type exactly when a non-empty type was supplied, and
\* nothing else. When the gateway resolves, to an empty list too, the result
\* is a success with that list; when it throws, the result is a failure with
\* the message of the error.
C30_FiltersAsSupplied ==
    tool.name = "listPublishers" =>
        /\ tool.listPublishersCalls = 1
        /\ DOMAIN tool.listPublishersArgument = {"category", "type"}
        /\ tool.listPublishersArgument.category =
              (IF tool.category \notin {Undefined, ""} THEN tool.category ELSE Undefined)
        /\ tool.listPublishersArgument.type =
              (IF tool.type \notin {Undefined, ""} THEN tool.type ELSE Undefined)
        /\ tool.pc = "done" =>
              IF tool.thrown = NotThrown
              THEN /\ tool.result.success
                   /\ tool.result.publishers \in GatewayPublisherLists
              ELSE /\ ~tool.result.success
                   /\ tool.thrown.class = "Error" =>
                         tool.result.error = tool.thrown.message

\* An empty category was left out of the filters, the type was passed, and
\* the empty list came back as a success
C30_Witness ==
    /\ tool.name = "listPublishers"
    /\ tool.pc = "done"
    /\ tool.category = "" /\ tool.type = "api"
    /\ tool.listPublishersArgument = [category |-> Undefined, type |-> "api"]
    /\ tool.result.success
    /\ tool.result.publishers = <<>>

\* The text is missing, empty or white space only
IsBlankArgument(text) ==
    text = Missing \/ \A k \in 1..Len(text) : text[k] \in Whitespace

\* C31: executeAdminQuery carries no payment-protocol state. A step of it
\* leaves walletProvider, the wallet providers, the connect handshakes and
\* every executeQuery invocation (its signatures and gateway queries) as they
\* are. Called with a blank sql or a blank API key it is done with a failure
\* and has made no HTTP request; otherwise it has made exactly one.
C31_AdminCarriesNoPaymentState ==
    /\ [](admin.pc # "idle" =>
            IF IsBlankArgument(admin.sql) \/ IsBlankArgument(admin.apiKey)
            THEN /\ admin.pc = "done"
                 /\ ~admin.result.success
                 /\ admin.fetchCalls = 0
            ELSE admin.fetchCalls = 1)
    /\ [][admin' # admin =>
            /\ walletProvider' = walletProvider
            /\ providers' = providers
            /\ connectCalls' = connectCalls
            /\ inv' = inv]_vars

\* An admin query succeeded with one request on an instance whose wallet an
\* executeQuery invocation had initialised before, and the invocation is
\* still in progress
C31_Witness ==
    /\ admin.pc = "done"
    /\ admin.result.success
    /\ admin.fetchCalls = 1
    /\ walletProvider # 0
    /\ inv[1].pc \notin {"start", "done"}

\* C32: the authorization of a wire payload is the message that was signed.
\* For every payload at the gateway, the signature was made by the wallet
\* of the instance over the from, to, value, validAfter, validBefore and
\* nonce that the payload's authorization carries, under the domain resolved
\* for the requirement the payload's scheme, network, recipient and value
\* come from.
C32_AuthorizationIsSignedMessage ==
    \A i \in Invocations :
        inv[i].request.payment.present =>
            LET payment == inv[i].request.payment
                signed == payment.signature.message
                authorization == payment.authorization
                requirement == inv[i].requirement
            IN  /\ payment.signature.signer = WalletAddress
                /\ authorization.from = signed.from
                /\ authorization.to = signed.to
                /\ authorization.value = signed.value
                /\ DecimalValue(authorization.validAfter) = signed.validAfter
                /\ DecimalValue(authorization.validBefore) = signed.validBefore
                /\ authorization.nonce = signed.nonce
                /\ payment.scheme = requirement.scheme
                /\ payment.network = requirement.network
                /\ authorization.to = requirement.payTo
                /\ authorization.value = requirement.maxAmountRequired
                /\ payment.signature.domain = ResolveDomain(requirement)

\* A payload is at the gateway whose signature was made under a domain that
\* the requirement configures itself
C32_Witness ==
    /\ inv[1].pc = "paidRequest"
    /\ inv[1].request.payment.present
    /\ inv[1].requirement.eip712.present
    /\ inv[1].request.payment.signature.domain.chainId = inv[1].requirement.eip712.chainId
    /\ inv[1].request.payment.authorization.nonce = inv[1].request.payment.signature.message.nonce

\* C33: every result of executeQuery has one of two shapes. A success has no
\* error and has the rows of the data of the gateway response the invocation
\* received last; a failure has an error and no rows, rowCount, cost,
\* execution time or txHash. A result has a txHash only when the invocation
\* has sent a signed payload.
C33_ResultShapes ==
    \A i \in Invocations :
        inv[i].pc = "done" =>
            LET result == inv[i].result
            IN  /\ result.success =>
                      /\ result.error = Undefined
                      /\ inv[i].lastResponse.data.present
                      /\ result.rows = inv[i].lastResponse.data.rows
                /\ ~result.success =>
                      /\ result.error # Undefined
                      /\ result.rows = Undefined
                      /\ result.rowCount = UndefinedNumber
                      /\ result.estimatedCost = Undefined
                      /\ result.actualCost = Undefined
                      /\ result.executionTime = UndefinedNumber
                      /\ result.txHash = Undefined
                /\ result.txHash # Undefined =>
                      /\ inv[i].signCalls = 1
                      /\ Len(inv[i].sentNonces) = 1

\* A success without a txHash although a signed payload was sent, and a
\* failure of the other invocation after its payload was sent
C33_Witness ==
    \E i, j \in Invocations :
        /\ inv[i].pc = "done" /\ inv[j].pc = "done"
        /\ inv[i].result.success
        /\ inv[i].result.txHash = Undefined
        /\ Len(inv[i].sentNonces) = 1
        /\ ~inv[j].result.success
        /\ Len(inv[j].sentNonces) = 1

\* C34: walletProvider is cached only after its connect(privateKey) has
\* completed. The cached provider is always a connected one, and the field
\* is assigned only in the step in which the connect of that provider
\* resolves. When the connect rejects, the step leaves the field as it is
\* (null stays null) and the invocation is done with a failure, without a
\* gateway call or a signature. An invocation that passes validation while
\* the field is null creates a provider and starts its connect.
C34_CachedAfterConnect ==
    /\ [](walletProvider # 0 => providers[walletProvider].connected)
    /\ [][
          /\ walletProvider' # walletProvider =>
                \E k \in Invocations :
                    /\ inv[k].pc = "connectKey"
                    /\ inv'[k].thrown = NotThrown
                    /\ walletProvider' = inv[k].wallet
          /\ \A i \in Invocations :
                /\ (inv[i].pc = "connectKey" /\ inv'[i].thrown # NotThrown) =>
                      /\ walletProvider' = walletProvider
                      /\ inv'[i].pc = "done"
                      /\ ~inv'[i].result.success
                      /\ inv'[i].gatewayCalls = 0
                      /\ inv'[i].signCalls = 0
                /\ (inv[i].pc = "start" /\ inv'[i].pc \notin {"start", "done"}
                       /\ walletProvider = 0) =>
                      /\ inv'[i].pc = "connectKey"
                      /\ connectCalls' = connectCalls + 1
                      /\ Len(providers') = Len(providers) + 1
       ]_vars

\* The connect of the first provider rejected, nothing is cached, and
\* another invocation is connecting a second provider
C34_Witness ==
    \E i, j \in Invocations :
        /\ inv[i].pc = "done"
        /\ inv[i].thrown # NotThrown
        /\ ~providers[1].connected
        /\ inv[i].gatewayCalls = 0
        /\ walletProvider = 0
        /\ inv[j].pc = "connectKey"
        /\ inv[j].wallet = 2

\* C35: when the first response has status 402 and no paymentRequired
\* envelope, the step that receives it ends the invocation without a
\* signature and without a second request: with a success that carries the
\* data when the response has data, and with the failure 'Unexpected
\* response from gateway' otherwise. An invocation that is done takes no
\* further step.
C35_ChallengeWithoutEnvelope ==
    [][\A i \in Invocations :
          /\ (/\ inv[i].pc = "initialRequest"
              /\ inv'[i].lastResponse.status = 402
              /\ ~inv'[i].lastResponse.paymentRequired.present) =>
                /\ inv'[i].pc = "done"
                /\ inv'[i].signCalls = 0
                /\ inv'[i].gatewayCalls = 1
                /\ inv'[i].sentNonces = <<>>
                /\ IF inv'[i].lastResponse.data.present
                   THEN /\ inv'[i].result.success
                        /\ CarriesData(inv'[i].result, inv'[i].lastResponse.data)
                   ELSE inv'[i].result = Failure("Unexpected response from gateway")
          /\ inv[i].pc = "done" => inv'[i] = inv[i]
      ]_vars

\* A 402 response without an envelope but with data was returned as a success
C35_Witness ==
    /\ inv[1].pc = "done"
    /\ inv[1].lastResponse.status = 402
    /\ ~inv[1].lastResponse.paymentRequired.present
    /\ inv[1].lastResponse.data.present
    /\ inv[1].result.success
    /\ inv[1].gatewayCalls = 1

\* C36: when the paid response carries data without an inline settlement
\* transaction and the decoding of its payment-response field throws, the
\* invocation is done with a failure whose error is the message the decoder
\* threw; the result has none of the rows, although the payload was sent;
\* and the invocation has made its two gateway calls and no more.
C36_DecodeFailureDiscardsRows ==
    \A i \in Invocations :
        (/\ inv[i].gatewayCalls = 2
         /\ inv[i].lastResponse.data.present
         /\ inv[i].lastResponse.data.settlementTx = Undefined
         /\ inv[i].lastResponse.paymentResponse # Undefined
         /\ DecodeThrows(inv[i].lastResponse.paymentResponse)) =>
            /\ inv[i].pc = "done"
            /\ inv[i].decodeCalls = 1
            /\ inv[i].thrown.class = "Error"
            /\ inv[i].result = Failure(inv[i].thrown.message)
            /\ inv[i].result.rows = Undefined
            /\ Len(inv[i].sentNonces) = 1

\* The decoder threw on the paid response's field and the rows were dropped
C36_Witness ==
    /\ inv[1].pc = "done"
    /\ inv[1].gatewayCalls = 2
    /\ inv[1].lastResponse.data.rows # Undefined
    /\ inv[1].lastResponse.data.settlementTx = Undefined
    /\ DecodeThrows(inv[1].lastResponse.paymentResponse)
    /\ inv[1].result = Failure("Invalid payment response")

\* The body has no sql, or no providerId, that is a string of at least one
\* character
LacksNonEmpty(value) == value = Missing \/ value = NotAString \/ value = <<>>

\* C37: POST /api/execute-sql answers 400 without invoking SerenService when
\* the body lacks a non-empty sql or providerId. Otherwise it invokes the
\* service once, and answers 200 exactly when the service resolved to a
\* result with success = true, and 500 for every other outcome (a failure
\* result or a throw). One response is sent per request, none before the
\* service has settled.
C37_ExecuteSqlStatus ==
    server.pc # "idle" =>
        /\ server.responses = (IF server.pc = "done" THEN 1 ELSE 0)
        /\ IF LacksNonEmpty(server.body.sql) \/ LacksNonEmpty(server.body.providerId)
           THEN /\ server.pc = "done"
                /\ server.status = 400
                /\ server.serviceCalls = 0
           ELSE /\ server.serviceCalls = 1
                /\ server.params = server.body
                /\ server.pc = "done" =>
                      IF server.thrown = NotThrown /\ server.result.success
                      THEN server.status = 200 /\ server.json.success
                      ELSE server.status = 500 /\ ~server.json.success

\* A body with a whitespace-only sql passed the schema, the service returned
\* a failure, and the answer was 500
C37_Witness ==
    /\ server.pc = "done"
    /\ server.body.sql = <<" ">>
    /\ server.serviceCalls = 1
    /\ ~server.result.success
    /\ server.thrown = NotThrown
    /\ server.status = 500
    /\ server.responses = 1

\* C38: in AdminConsole at most one admin request is in flight at any time:
\* while a request is in flight the status is 'executing' (the Execute
\* button is disabled), and the status, results and output that an answer
\* has set are those of the newest request.
C38_SingleRequestInFlight ==
    /\ Cardinality(console.inFlight) <= 1
    /\ console.inFlight # {} => console.status = "executing"
    /\ console.shown \in {0, console.started}

====
